---- MODULE Spec2Model ----
(***************************************************************************)
(* Model of the era-engine client core: the Network session (socket,      *)
(* correlated calls, plain HTTP calls), the Entity action state and the    *)
(* Controls dispatcher.                                                    *)
(***************************************************************************)
EXTENDS Integers, Sequences, FiniteSets, TLC

\* ------------------------------------------------------------------ bounds

\* Number of listeners/calls (emitAndAwaitResponse, waitForMessage, socket.on)
\* that one behaviour may install on the socket.
MaxCalls == 3
\* Number of createSocketConnection calls in one behaviour.
MaxConnects == 2
\* Number of socket 'error' events in one behaviour.
MaxErrors == 1
\* Number of plain HTTP requests in one behaviour.
MaxRequests == 2
\* Number of sendInput propagations counted per entity.
MaxSends == 3
\* Number of controllerTick callbacks scheduled at one time.
MaxTicks == 2
\* Number of listeners added to the event bus in one behaviour.
MaxListeners == 3
\* Number of render callbacks scheduled at one time.
MaxLoops == 3
\* Number of animation frames rendered in one behaviour.
MaxFrames == 4
\* Number of plugins installed in the engine.
MaxPlugins == 2

\* ------------------------------------------------------------------ domains

Endpoints == {"ping", "pong"}
\* An omitted responseEndpoint argument (undefined, falsy).
NoEndpoint == ""
\* Payloads a server message can carry.
Payloads == {"p1", "p2"}
\* The value of a promise that has not resolved.
NoValue == "none"

VARIABLES
    \* ---- Network session
    networkInstance,    \* the singleton is registered (Network.get / Network.clear)
    socket,             \* this.socket: "none" | "connecting" | "open" | "closed"
    socketsOpened,      \* number of io.connect calls made
    connectHandlers,    \* number of 'connect' handlers installed on the socket
    errorHandlers,      \* number of 'error' handlers installed on the socket
    disconnectHandlers, \* number of one-shot 'disconnect' handlers installed
    connectionResolver, \* index in connCalls of the promise this.connectionResolver resolves
    connCalls,          \* the promises returned by createSocketConnection
    cleared,            \* this.cleared
    pendingResponses,   \* this.pendingResponses
    listeners,          \* socket listeners per endpoint (ids of calls)
    calls,              \* accepted calls and subscriptions, by id
    emitted,            \* messages emitted on the socket, in order
    result,             \* outcome of the last emitAndAwaitResponse / waitForMessage
    errorEvents,        \* ErrorEvents fired on the event bus
    reloads,            \* window.location.reload() calls
    \* ---- plain HTTP calls
    requests,           \* the XMLHttpRequests made, with their promises
    \* ---- Entity
    actions,            \* entity -> this.actions (action -> value), keys as stored
    mouseMovement,      \* entity -> this.mouseMovement
    sendInputs,         \* entity -> number of parentGame.sendInput(this) calls
    lastSent,           \* entity -> the state the last sendInput(this) was given
    inputDevice,        \* entity -> this.inputDevice
    \* ---- Controls
    registeredEntities, \* this.registeredEntities, in insertion order
    controlsEnabled,    \* this.controlsEnabled
    hasController,      \* this.hasController
    previousInput,      \* this.previousInput
    scheduledTicks,     \* controllerTick callbacks scheduled and not yet run
    lastCall,           \* the method of Controls, or of an entity's physics, that ran last
    consoleErrors,      \* console.error calls made by the last Controls call
    threw,              \* that call ended with an exception
    pointerLockState,   \* this.pointerLockState: the forced state
    pointerLocked,      \* the document holds the pointer lock
    pointerCalls,       \* the browser's pointer-lock functions called by the last
                        \* pointer-lock method of Controls
    staticBindings,     \* the module's `const Bindings` table, as it is now
    bindings,           \* this.bindings
    boundActions,       \* this.boundActions
    customControls,     \* this.customControls
    sharesControls,     \* this.customControls is the object settingsObject.controls
    movementDeadzone,   \* this.movementDeadzone, in hundredths
    indexes,            \* what the last generateBoundActions calls were given and returned
    \* ---- Settings
    settingsObject,     \* Settings.settingsObject
    localStorage,       \* the settings saved under SETTINGS_KEY
    \* ---- Entity physics
    physicsBody,        \* entity -> this.physicsBody
    snapshot,           \* entity -> what its last serializePhysics() returned
    \* ---- Events
    registeredListeners, \* this.registeredListeners: label -> listeners, in insertion order
    registeredUUIDs,    \* this.registeredUUIDs: listener uuid -> label
    uuidsCreated,       \* number of createUUID() calls made for listeners
    delivered,          \* the listeners the last fireEvent invoked, in order
    returned,           \* the last call of a method of Events and the value it returned
    \* ---- Engine
    started,            \* this.started
    rendering,          \* this.rendering
    resetRender,        \* this.resetRender
    plugins,            \* number of plugins in this.plugins
    scheduledRenders,   \* render callbacks requested of requestAnimationFrame, not yet run
    frames,             \* number of renderer.render calls made
    engineCall          \* the last call of start() or reset() and whether it threw

netVars == <<networkInstance, socket, socketsOpened, connectHandlers, errorHandlers,
             disconnectHandlers, connectionResolver, connCalls, cleared,
             pendingResponses, listeners, calls, emitted, result,
             errorEvents, reloads>>
httpVars == <<requests>>
entityVars == <<actions, mouseMovement, sendInputs, lastSent, inputDevice>>
pointerVars == <<pointerLockState, pointerLocked, pointerCalls>>
bindingVars == <<staticBindings, bindings, boundActions, customControls, sharesControls,
                 movementDeadzone, indexes>>
settingsVars == <<settingsObject, localStorage>>
controlsVars == <<registeredEntities, controlsEnabled, hasController, previousInput,
                  scheduledTicks, lastCall, consoleErrors, threw, pointerVars,
                  bindingVars, settingsVars>>
physicsVars == <<physicsBody, snapshot>>
eventsVars == <<registeredListeners, registeredUUIDs, uuidsCreated, delivered, returned>>
engineVars == <<started, rendering, resetRender, plugins, scheduledRenders, frames,
                engineCall>>
vars == <<netVars, httpVars, entityVars, controlsVars, physicsVars, eventsVars, engineVars>>

\* ================================================================= Network

\* Network.constructor (after Network.get created the singleton).
NetInit ==
    /\ networkInstance = TRUE
    /\ socket = "none"
    /\ socketsOpened = 0
    /\ connectHandlers = 0
    /\ errorHandlers = 0
    /\ disconnectHandlers = 0
    /\ connectionResolver = 0
    /\ connCalls = <<>>
    /\ cleared = FALSE
    /\ pendingResponses = {}
    /\ listeners = [x \in Endpoints |-> {}]
    /\ calls = <<>>
    /\ emitted = <<>>
    /\ result = "none"
    /\ errorEvents = 0
    /\ reloads = 0

\* The page is still loaded: window.location.reload() ends the program.
Running == reloads = 0

\* Variant of HasSocket: the socket counts only once it is connected.
HasSocketConnected == socket = "open"

\* `if (this.socket)` of createSocketConnection, disconnect and the calls.
HasSocket == socket # "none"

\* The one-shot 'disconnect' handler installed by handleConnect; isCleared is
\* this.cleared at the time the handler runs.
onDisconnect(isCleared) ==
    /\ errorEvents' = errorEvents + disconnectHandlers
    /\ reloads' = IF disconnectHandlers > 0 /\ ~isCleared THEN reloads + 1 ELSE reloads
    /\ disconnectHandlers' = 0

\* socket.disconnect() of socket.io: a connected socket closes and fires
\* 'disconnect'; a socket that is not connected is destroyed silently.
socketDisconnect(isCleared) ==
    IF socket = "open"
    THEN /\ socket' = "closed"
         /\ onDisconnect(isCleared)
    ELSE /\ socket' = IF socket = "connecting" THEN "closed" ELSE socket
         /\ UNCHANGED <<errorEvents, reloads, disconnectHandlers>>

\* Variant of disconnectBody: this.cleared is set after socket.disconnect().
disconnectBodyClearedLate ==
    /\ cleared' = TRUE
    /\ IF HasSocket
       THEN socketDisconnect(cleared)
       ELSE UNCHANGED <<socket, errorEvents, reloads, disconnectHandlers>>

\* Network.disconnect as a step relation on the session's fields.
disconnectBody ==
    /\ cleared' = TRUE
    /\ IF HasSocket
       THEN socketDisconnect(TRUE)
       ELSE UNCHANGED <<socket, errorEvents, reloads, disconnectHandlers>>

\* Network.disconnect()
disconnect ==
    /\ Running
    /\ disconnectBody
    /\ UNCHANGED <<networkInstance, socketsOpened, connectHandlers, errorHandlers,
                   connectionResolver, connCalls, pendingResponses, listeners,
                   calls, emitted, result>>
    /\ UNCHANGED <<httpVars, entityVars, controlsVars, physicsVars, eventsVars, engineVars>>

\* Network.clear()
clear ==
    /\ Running
    /\ networkInstance
    /\ disconnectBody
    /\ networkInstance' = FALSE
    /\ UNCHANGED <<socketsOpened, connectHandlers, errorHandlers,
                   connectionResolver, connCalls, pendingResponses, listeners,
                   calls, emitted, result>>
    /\ UNCHANGED <<httpVars, entityVars, controlsVars, physicsVars, eventsVars, engineVars>>

\* Network.createSocketConnection(query, required)
createSocketConnection(req) ==
    /\ Running
    /\ Len(connCalls) < MaxConnects
    /\ IF HasSocket
       THEN /\ connCalls' = Append(connCalls, [state |-> "resolved", required |-> req])
            /\ UNCHANGED <<socket, socketsOpened, connectHandlers, connectionResolver>>
       ELSE /\ connCalls' = Append(connCalls, [state |-> "pending", required |-> req])
            /\ connectionResolver' = Len(connCalls) + 1
            /\ socket' = "connecting"
            /\ socketsOpened' = socketsOpened + 1
            /\ connectHandlers' = connectHandlers + 1
    /\ UNCHANGED <<networkInstance, errorHandlers, disconnectHandlers, cleared,
                   pendingResponses, listeners, calls, emitted, result,
                   errorEvents, reloads>>
    /\ UNCHANGED <<httpVars, entityVars, controlsVars, physicsVars, eventsVars, engineVars>>

\* The socket's 'connect' event: Network.handleConnect(required), with the
\* required flag captured by the call that opened the socket.
handleConnect ==
    /\ Running
    /\ socket = "connecting"
    /\ socket' = "open"
    /\ connCalls' = [connCalls EXCEPT ![connectionResolver].state = "resolved"]
    /\ errorHandlers' = errorHandlers + 1
    /\ disconnectHandlers' =
          IF connCalls[connectionResolver].required
          THEN disconnectHandlers + 1 ELSE disconnectHandlers
    /\ UNCHANGED <<networkInstance, socketsOpened, connectHandlers, connectionResolver,
                   cleared, pendingResponses, listeners, calls, emitted, result,
                   errorEvents, reloads>>
    /\ UNCHANGED <<httpVars, entityVars, controlsVars, physicsVars, eventsVars, engineVars>>

\* The socket's 'error' event, handled by the handler handleConnect installed.
socketError ==
    /\ Running
    /\ socket = "open"
    /\ errorEvents < MaxErrors
    /\ errorEvents' = errorEvents + errorHandlers
    /\ UNCHANGED <<networkInstance, socket, socketsOpened, connectHandlers,
                   errorHandlers, disconnectHandlers, connectionResolver, connCalls,
                   cleared, pendingResponses, listeners, calls, emitted, result,
                   reloads>>
    /\ UNCHANGED <<httpVars, entityVars, controlsVars, physicsVars, eventsVars, engineVars>>

\* The connection is lost (server or transport): the socket's 'disconnect'
\* event fires with this.cleared as it is.
socketLost ==
    /\ Running
    /\ socket = "open"
    /\ socket' = "closed"
    /\ onDisconnect(cleared)
    /\ UNCHANGED <<networkInstance, socketsOpened, connectHandlers, errorHandlers,
                   connectionResolver, connCalls, cleared, pendingResponses,
                   listeners, calls, emitted, result>>
    /\ UNCHANGED <<httpVars, entityVars, controlsVars, physicsVars, eventsVars, engineVars>>

\* `if (!responseEndpoint) responseEndpoint = endpoint`
DefaultResponse(endpoint, responseEndpoint) ==
    IF responseEndpoint = NoEndpoint THEN endpoint ELSE responseEndpoint

\* Variant of EmitAlreadyInstalled: only the request endpoint is tested.
EmitAlreadyInstalledRequestOnly(endpoint, responseEndpoint) ==
    endpoint \in pendingResponses

\* The "Don't install a listener for something twice" test of emitAndAwaitResponse.
EmitAlreadyInstalled(endpoint, responseEndpoint) ==
    endpoint \in pendingResponses \/ responseEndpoint \in pendingResponses

\* Variant of WaitAlreadyInstalled: the registry is not consulted.
WaitAlreadyInstalledNever(endpoint) == FALSE

\* The same test of waitForMessage.
WaitAlreadyInstalled(endpoint) ==
    endpoint \in pendingResponses

\* Variant of EmitRemoveListeners: only the request endpoint is swept.
EmitRemoveListenersRequestOnly(endpoint, responseEndpoint) ==
    [x \in Endpoints |-> IF x = endpoint THEN {} ELSE listeners[x]]

\* The listeners left after the removeAllListeners calls of emitAndAwaitResponse.
EmitRemoveListeners(endpoint, responseEndpoint) ==
    [x \in Endpoints |-> IF x \in {endpoint, responseEndpoint} THEN {} ELSE listeners[x]]

\* The listeners left after the removeAllListeners call of waitForMessage.
WaitRemoveListeners(endpoint) ==
    [x \in Endpoints |-> IF x = endpoint THEN {} ELSE listeners[x]]

\* Variant of EmitListenEndpoint: the listener goes on the request endpoint.
EmitListenOnRequest(endpoint, responseEndpoint) == endpoint

\* The endpoint emitAndAwaitResponse attaches its one-shot listener to:
\* `this.socket.once(responseEndpoint, ...)`.
EmitListenEndpoint(endpoint, responseEndpoint) == responseEndpoint

\* Variant of EmitListeners: the endpoints are swept after the listener is
\* attached.
EmitListenersSweptLast(endpoint, responseEndpoint, id) ==
    [x \in Endpoints |->
        IF x \in {endpoint, responseEndpoint} THEN {}
        ELSE [listeners EXCEPT ![EmitListenEndpoint(endpoint, responseEndpoint)] =
                                   @ \cup {id}][x]]

\* The socket's listeners once emitAndAwaitResponse has swept both endpoints
\* and attached the listener of call id, which it does before it emits.
EmitListeners(endpoint, responseEndpoint, id) ==
    [EmitRemoveListeners(endpoint, responseEndpoint)
        EXCEPT ![EmitListenEndpoint(endpoint, responseEndpoint)] = @ \cup {id}]

\* Variant of Throw: a call that fails empties the pending registry.
ThrowForgets(error) ==
    /\ result' = error
    /\ pendingResponses' = {}
    /\ UNCHANGED <<listeners, calls, emitted>>

\* A call that throws: the returned promise is rejected and nothing else happens.
Throw(error) ==
    /\ result' = error
    /\ UNCHANGED <<pendingResponses, listeners, calls, emitted>>

\* Network.emitAndAwaitResponse(endpoint, sentData, responseEndpoint)
emitAndAwaitResponse(endpoint, sentData, responseEndpoint) ==
    /\ Running
    /\ Len(calls) < MaxCalls
    /\ LET r == DefaultResponse(endpoint, responseEndpoint)
           id == Len(calls) + 1
       IN IF ~HasSocket THEN Throw("No socket installed.")
          ELSE IF EmitAlreadyInstalled(endpoint, r) THEN Throw("Listener already installed.")
          ELSE /\ pendingResponses' = pendingResponses \cup {endpoint, r}
               /\ listeners' = EmitListeners(endpoint, r, id)
               /\ calls' = Append(calls, [kind |-> "emit", e |-> endpoint, r |-> r,
                                          state |-> "pending", value |-> NoValue])
               /\ emitted' = Append(emitted, <<endpoint, sentData>>)
               /\ result' = "accepted"
    /\ UNCHANGED <<networkInstance, socket, socketsOpened, connectHandlers,
                   errorHandlers, disconnectHandlers, connectionResolver, connCalls,
                   cleared, errorEvents, reloads>>
    /\ UNCHANGED <<httpVars, entityVars, controlsVars, physicsVars, eventsVars, engineVars>>

\* Network.waitForMessage(endpoint)
waitForMessage(endpoint) ==
    /\ Running
    /\ Len(calls) < MaxCalls
    /\ LET id == Len(calls) + 1
       IN IF ~HasSocket THEN Throw("No socket installed.")
          ELSE IF WaitAlreadyInstalled(endpoint) THEN Throw("Listener already installed.")
          ELSE /\ pendingResponses' = pendingResponses \cup {endpoint}
               /\ listeners' = [WaitRemoveListeners(endpoint) EXCEPT ![endpoint] = @ \cup {id}]
               /\ calls' = Append(calls, [kind |-> "wait", e |-> endpoint, r |-> endpoint,
                                          state |-> "pending", value |-> NoValue])
               /\ emitted' = emitted
               /\ result' = "accepted"
    /\ UNCHANGED <<networkInstance, socket, socketsOpened, connectHandlers,
                   errorHandlers, disconnectHandlers, connectionResolver, connCalls,
                   cleared, errorEvents, reloads>>
    /\ UNCHANGED <<httpVars, entityVars, controlsVars, physicsVars, eventsVars, engineVars>>

\* A caller that holds the socket createSocketConnection resolved with
\* subscribes to an endpoint: socket.on(endpoint, handler).
subscribe(endpoint) ==
    /\ Running
    /\ Len(calls) < MaxCalls
    /\ \E i \in 1..Len(connCalls) : connCalls[i].state = "resolved"
    /\ listeners' = [listeners EXCEPT ![endpoint] = @ \cup {Len(calls) + 1}]
    /\ calls' = Append(calls, [kind |-> "sub", e |-> endpoint, r |-> endpoint,
                               state |-> "pending", value |-> NoValue])
    /\ UNCHANGED <<networkInstance, socket, socketsOpened, connectHandlers,
                   errorHandlers, disconnectHandlers, connectionResolver, connCalls,
                   cleared, pendingResponses, emitted, result,
                   errorEvents, reloads>>
    /\ UNCHANGED <<httpVars, entityVars, controlsVars, physicsVars, eventsVars, engineVars>>

\* The listener `(data) => resolve(data)` of a call: resolving a promise that
\* is already resolved changes nothing.
Resolve(call, data) ==
    IF call.kind \in {"emit", "wait"} /\ call.state = "pending"
    THEN [call EXCEPT !.state = "resolved", !.value = data]
    ELSE call

\* A message arrives on an endpoint: the socket invokes the endpoint's
\* listeners; the listeners installed with once() are removed.
deliver(endpoint, data) ==
    /\ Running
    /\ socket = "open"
    /\ calls' = [i \in 1..Len(calls) |->
                   IF i \in listeners[endpoint] THEN Resolve(calls[i], data) ELSE calls[i]]
    /\ listeners' = [listeners EXCEPT ![endpoint] = {i \in @ : calls[i].kind = "sub"}]
    /\ UNCHANGED <<networkInstance, socket, socketsOpened, connectHandlers,
                   errorHandlers, disconnectHandlers, connectionResolver, connCalls,
                   cleared, pendingResponses, emitted, result, errorEvents, reloads>>
    /\ UNCHANGED <<httpVars, entityVars, controlsVars, physicsVars, eventsVars, engineVars>>

NetNext ==
    \/ disconnect
    \/ clear
    \/ \E req \in BOOLEAN : createSocketConnection(req)
    \/ handleConnect
    \/ socketError
    \/ socketLost
    \/ \E e \in Endpoints, r \in Endpoints \cup {NoEndpoint} : emitAndAwaitResponse(e, "d", r)
    \/ \E e \in Endpoints : waitForMessage(e)
    \/ \E e \in Endpoints : subscribe(e)
    \/ \E e \in Endpoints, d \in Payloads : deliver(e, d)

\* ================================================================= plain HTTP calls

Methods == {"GET", "POST", "DELETE"}
\* HTTP status codes a response can carry.
Statuses == {200, 304, 404, 500}
\* Response bodies: an object with a message field, an object without one,
\* and two texts JSON.parse throws on.
Bodies == {"{\"message\":\"denied\"}", "{\"id\":7}", "<html>", ""}

\* The value of a promise that has not resolved with a parsed body.
NoJson == [none |-> TRUE]

\* JSON.parse(text) returns (TRUE) or throws a SyntaxError (FALSE).
Parseable(text) == text \in {"{\"message\":\"denied\"}", "{\"id\":7}"}

\* The value JSON.parse(text) returns for a parseable text.
JSONparse(text) ==
    IF text = "{\"message\":\"denied\"}" THEN [message |-> "denied"]
    ELSE [id |-> 7]

\* Network.createError(req): the message of the Error it returns; an absent
\* message field is undefined, and new Error(undefined) has the message "".
createError(responseText) ==
    IF Parseable(responseText)
    THEN LET parsed == JSONparse(responseText)
         IN IF "message" \in DOMAIN parsed THEN parsed.message ELSE ""
    ELSE responseText

\* The status test of createPostRequest's load listener.
PostSuccess(status) == status = 200 \/ status = 304
\* The status test of createGetRequest's load listener.
GetSuccess(status) == status = 200
\* The status test of createDeleteRequest's load listener.
DeleteSuccess(status) == status = 200

HttpInit == requests = <<>>

\* `new XMLHttpRequest(); req.open(method, ...); req.send(...)` inside the
\* promise executor: the request is in flight and the promise pending.
SendRequest(method) ==
    /\ Len(requests) < MaxRequests
    /\ requests' = Append(requests, [method |-> method, transport |-> "sent",
                                     status |-> 0, responseText |-> "",
                                     promise |-> "pending", value |-> NoJson,
                                     message |-> ""])
    /\ UNCHANGED <<netVars, entityVars, controlsVars, physicsVars, eventsVars, engineVars>>

\* Network.createPostRequest(path, data)
createPostRequest == SendRequest("POST")
\* Network.createGetRequest(path)
createGetRequest == SendRequest("GET")
\* Network.createDeleteRequest(path, data)
createDeleteRequest == SendRequest("DELETE")

\* The 'load' listener of a request: on a success status the body is parsed
\* and the promise resolved (JSON.parse throwing leaves the promise as it is);
\* otherwise the promise is rejected with createError(req).
LoadListener(req, success) ==
    IF success
    THEN IF Parseable(req.responseText)
         THEN [req EXCEPT !.promise = "resolved", !.value = JSONparse(req.responseText)]
         ELSE req
    ELSE [req EXCEPT !.promise = "rejected", !.message = createError(req.responseText)]

\* The 'load' event of request i: a response with a status and a body arrived.
load(i, status, body) ==
    /\ i \in 1..Len(requests)
    /\ requests[i].transport = "sent"
    /\ LET req == [requests[i] EXCEPT !.transport = "load", !.status = status,
                                      !.responseText = body]
           success == CASE req.method = "POST" -> PostSuccess(status)
                        [] req.method = "GET" -> GetSuccess(status)
                        [] req.method = "DELETE" -> DeleteSuccess(status)
       IN requests' = [requests EXCEPT ![i] = LoadListener(req, success)]
    /\ UNCHANGED <<netVars, entityVars, controlsVars, physicsVars, eventsVars, engineVars>>

\* The 'error' event of request i (no response: status 0, empty body): the
\* listener rejects with createError(req).
error(i) ==
    /\ i \in 1..Len(requests)
    /\ requests[i].transport = "sent"
    /\ requests' = [requests EXCEPT ![i] =
                      [requests[i] EXCEPT !.transport = "error", !.promise = "rejected",
                                          !.message = createError(requests[i].responseText)]]
    /\ UNCHANGED <<netVars, entityVars, controlsVars, physicsVars, eventsVars, engineVars>>

HttpNext ==
    \/ createPostRequest
    \/ createGetRequest
    \/ createDeleteRequest
    \/ \E i \in 1..MaxRequests, status \in Statuses, body \in Bodies : load(i, status, body)
    \/ \E i \in 1..MaxRequests : error(i)

\* ================================================================= Entity

Entities == {"e1", "e2"}
\* Action identifiers setAction is called with directly: the binding ids of
\* FORWARD and SPRINT.
ActionIds == {5, 8}
\* Pressure values in tenths: 0, 0.6 and 1.
Values == {0, 6, 10}
\* Pointer movement deltas.
Deltas == {0, 1}
\* this.mouseSensitivity as the constructor sets it.
MouseSensitivity == 50
\* The mouse movement at the origin.
Origin == [x |-> 0, y |-> 0]

\* Entity.constructor
EntityInit ==
    /\ actions = [ent \in Entities |-> <<>>]
    /\ mouseMovement = [ent \in Entities |-> Origin]
    /\ sendInputs = [ent \in Entities |-> 0]
    /\ lastSent = [ent \in Entities |-> [actions |-> <<>>, mouseMovement |-> Origin]]
    /\ inputDevice = [ent \in Entities |-> "keyboard"]

\* The fields of entity ent, as one record.
Fields(ent) ==
    [actions |-> actions[ent], mouseMovement |-> mouseMovement[ent],
     sendInputs |-> sendInputs[ent], lastSent |-> lastSent[ent],
     inputDevice |-> inputDevice[ent]]

\* The entities' fields become those of ents (entity -> record).
Become(ents) ==
    /\ actions' = [ent \in Entities |-> ents[ent].actions]
    /\ mouseMovement' = [ent \in Entities |-> ents[ent].mouseMovement]
    /\ sendInputs' = [ent \in Entities |-> ents[ent].sendInputs]
    /\ lastSent' = [ent \in Entities |-> ents[ent].lastSent]
    /\ inputDevice' = [ent \in Entities |-> ents[ent].inputDevice]

\* All entities as they are, but ent with the fields e.
With(ent, e) == [x \in Entities |-> IF x = ent THEN e ELSE Fields(x)]

\* `this.actions[action] && this.actions[action] === value`: the early-return
\* test of setAction; a missing key reads undefined, and 0 is falsy.
SameValue(acts, action, value) ==
    /\ action \in DOMAIN acts
    /\ acts[action] # 0
    /\ acts[action] = value

\* Variant of StoreAction: a value already stored is kept.
StoreActionKeepsFirst(acts, action, value) ==
    IF action \in DOMAIN acts THEN acts
    ELSE IF value # 0 THEN [a \in DOMAIN acts \cup {action} |-> IF a = action THEN value ELSE acts[a]]
    ELSE acts

\* Variant of StoreAction: a zero value is stored like any other.
StoreActionKeepsZero(acts, action, value) ==
    [a \in DOMAIN acts \cup {action} |-> IF a = action THEN value ELSE acts[a]]

\* The action map after `this.actions[action] = value` or `delete this.actions[action]`.
StoreAction(acts, action, value) ==
    IF value # 0
    THEN [a \in DOMAIN acts \cup {action} |-> IF a = action THEN value ELSE acts[a]]
    ELSE [a \in DOMAIN acts \ {action} |-> acts[a]]

\* this.parentGame.sendInput(this): the game is handed the entity as it is.
sendInput(e) ==
    [e EXCEPT !.sendInputs = @ + 1,
              !.lastSent = [actions |-> e.actions, mouseMovement |-> e.mouseMovement]]

\* The body of Entity.setAction(action, value) on the fields e.
SetActionBody(e, action, value) ==
    IF SameValue(e.actions, action, value)
    THEN e
    ELSE sendInput([e EXCEPT !.actions = StoreAction(@, action, value)])

\* Variant of ClearInputBody: the mouse movement is left as it is.
ClearInputKeepsMouse(e) ==
    sendInput([e EXCEPT !.actions = <<>>])

\* Variant of ClearInputBody: the game is told before the state is cleared.
ClearInputSendsFirst(e) ==
    [sendInput(e) EXCEPT !.actions = <<>>, !.mouseMovement = Origin]

\* The body of Entity.clearInput() on the fields e.
ClearInputBody(e) ==
    sendInput([e EXCEPT !.actions = <<>>, !.mouseMovement = Origin])

\* The body of Entity.setMouseMovement(x, y) on the fields e, with enableMouseY
\* unset as the constructor leaves it: the movement is sent, and kept only by
\* an offline game (isOffline is this.parentGame.isOffline as read by the call).
SetMouseMovementBody(e, x, y, isOffline) ==
    LET ratio == MouseSensitivity \div 50
        sent == sendInput([e EXCEPT !.mouseMovement = [x |-> x * ratio, y |-> y * ratio]])
    IN IF isOffline THEN sent ELSE [sent EXCEPT !.mouseMovement = Origin]

\* Entity.setAction(action, value)
setAction(ent, action, value) ==
    /\ sendInputs[ent] < MaxSends
    /\ Become(With(ent, SetActionBody(Fields(ent), action, value)))
    /\ UNCHANGED <<netVars, httpVars, controlsVars, physicsVars, eventsVars, engineVars>>

\* Entity.clearInput()
clearInput(ent) ==
    /\ sendInputs[ent] < MaxSends
    /\ Become(With(ent, ClearInputBody(Fields(ent))))
    /\ UNCHANGED <<netVars, httpVars, controlsVars, physicsVars, eventsVars, engineVars>>

\* Entity.setMouseMovement(x, y)
setMouseMovement(ent, x, y, isOffline) ==
    /\ sendInputs[ent] < MaxSends
    /\ Become(With(ent, SetMouseMovementBody(Fields(ent), x, y, isOffline)))
    /\ UNCHANGED <<netVars, httpVars, controlsVars, physicsVars, eventsVars, engineVars>>

\* Entity.getForce(binding)
getForce(ent, action) ==
    IF action \in DOMAIN actions[ent] /\ actions[ent][action] # 0
    THEN actions[ent][action] ELSE 0

EntityNext ==
    \/ \E ent \in Entities, a \in ActionIds, v \in Values : setAction(ent, a, v)
    \/ \E ent \in Entities : clearInput(ent)
    \/ \E ent \in Entities, x \in Deltas, y \in Deltas, isOffline \in BOOLEAN :
          setMouseMovement(ent, x, y, isOffline)

\* ================================================================= Controls

\* An object that has a uuid and no action container (a plain Object3D).
BareObject == "object3d"
\* The null entity.
Null == "null"
\* What registerEntity / unregisterEntity can be handed.
Candidates == Entities \cup {BareObject, Null}
\* Keyboard key codes of the key events: two bound keys.
KeyCodes == {"87", "16"}
\* Mouse buttons of the mouse events (bound to nothing by default).
MouseButtons == {"0"}
\* The gamepad's keys, in the order getRawControllerInput fills them in; the
\* gamepad's other buttons are never pressed and so never reported.
ControllerKeys == <<"axes0", "axes1", "button5">>
\* Readings of the gamepad's two axes, in tenths.
GamepadAxes == {<<0, 0>>, <<1, 0>>, <<6, 1>>, <<-6, 0>>}
\* Readings of the gamepad's button 5, in tenths.
ButtonValues == {0, 1, 10}
\* The movementX / movementY of the mouse events.
MouseMovements == {<<0, 0>>, <<1, 0>>}
\* DEFAULT_SETTINGS.movement_deadzone, in hundredths.
MovementDeadzone == 15
\* A key press (`setActions(e.keyCode, 1)`), in tenths.
Pressed == 10

\* The default input bindings, in key order; keys are <<keyboard, controller>>.
Bindings ==
    << [name |-> "BACKWARD", binding_id |-> 0, keys |-> <<"83", "axes1">>],
       [name |-> "FORWARD", binding_id |-> 5, keys |-> <<"87", "axes1">>],
       [name |-> "LEFT", binding_id |-> 6, keys |-> <<"65", "axes0">>],
       [name |-> "RIGHT", binding_id |-> 7, keys |-> <<"68", "axes0">>],
       [name |-> "SPRINT", binding_id |-> 8, keys |-> <<"16", "button5">>] >>

\* The binding ids of the table.
BindingIds == {Bindings[i].binding_id : i \in 1..Len(Bindings)}

\* The position of the binding called name in table, 0 when it has none
\* (`table[name]` is then undefined).
IndexOfName(table, name) ==
    IF \E i \in 1..Len(table) : table[i].name = name
    THEN CHOOSE i \in 1..Len(table) : table[i].name = name
    ELSE 0

\* `Bindings[bindingName].binding_id` throws a TypeError: some binding of
\* bindings that has a key is not in the static table.
BindingIdThrows(static, table) ==
    \E i \in 1..Len(table) :
        Len(table[i].keys) > 0 /\ IndexOfName(static, table[i].name) = 0

\* The <<key, binding id>> pairs in the order generateBoundActions visits
\* them; the id is read from the static table, under the binding's name.
RECURSIVE BoundPairs(_, _, _)
BoundPairs(static, table, i) ==
    IF i > Len(table) THEN <<>>
    ELSE [k \in 1..Len(table[i].keys) |->
             <<table[i].keys[k],
               static[IndexOfName(static, table[i].name)].binding_id>>]
         \o BoundPairs(static, table, i + 1)

\* Controls.generateBoundActions(bindings), with the static table as it is:
\* key -> the binding ids to trigger, or the TypeError it ends with.
generateBoundActions(static, table) ==
    IF BindingIdThrows(static, table)
    THEN [threw |-> TRUE, boundActions |-> <<>>]
    ELSE LET pairs == BoundPairs(static, table, 1)
             OfKey(key) == SelectSeq(pairs, LAMBDA p : p[1] = key)
         IN [threw |-> FALSE,
             boundActions |->
                 [key \in {pairs[i][1] : i \in 1..Len(pairs)} |->
                     [j \in 1..Len(OfKey(key)) |-> OfKey(key)[j][2]]]]

\* Controls.getActionList(key)
getActionList(key) ==
    IF key \in DOMAIN boundActions THEN boundActions[key] ELSE <<>>

\* The devices of a binding's keys, in key order: keys[1] is the keyboard's
\* key and keys[2] the controller's.
Devices == <<"keyboard", "controller">>

\* Values of settings.controls, each the <<binding name, device, key>>
\* overrides in the key order of the object: none; the up arrow for FORWARD;
\* a button for SPRINT and the up arrow for FORWARD; BACKWARD's key for
\* FORWARD; the space bar for SPRINT and a key for FIRE, which is no binding.
ControlsSamples ==
    { <<>>,
      << <<"FORWARD", 1, "38">> >>,
      << <<"SPRINT", 2, "button7">>, <<"FORWARD", 1, "38">> >>,
      << <<"FORWARD", 1, "83">> >>,
      << <<"SPRINT", 1, "32">>, <<"FIRE", 1, "70">> >> }
\* Values of settings.movement_deadzone, in hundredths.
DeadzoneSamples == {MovementDeadzone, 30}

\* DEFAULT_SETTINGS, as far as Controls reads it.
DEFAULT_SETTINGS == [controls |-> <<>>, movement_deadzone |-> MovementDeadzone]

\* Variant of DeepCopy: the table itself is handed on.
SameObject(table) == [shared |-> TRUE, table |-> table]

\* JSON.parse(JSON.stringify(table)): a new object with the table's contents
\* (names, numbers and strings, which JSON keeps as they are).
DeepCopy(table) == [shared |-> FALSE, table |-> table]

\* The loop of registerBindings from override i on; W is [table, threw].
\* `this.bindings[customBindingName].keys` throws a TypeError for a name the
\* table does not have.
RECURSIVE ApplyCustomControls(_, _, _)
ApplyCustomControls(W, custom, i) ==
    IF i > Len(custom) \/ W.threw THEN W
    ELSE LET n == IndexOfName(W.table, custom[i][1])
         IN IF n = 0 THEN [W EXCEPT !.threw = TRUE]
            ELSE ApplyCustomControls(
                     [W EXCEPT !.table[n].keys[custom[i][2]] = custom[i][3]],
                     custom, i + 1)

\* The body of Controls.registerBindings(): the static table, this.bindings
\* and this.boundActions after it, and whether it threw.
RegisterBindingsBody(static, custom, oldBindings, oldBoundActions) ==
    LET copy == DeepCopy(static)
        merged == ApplyCustomControls([table |-> copy.table, threw |-> FALSE], custom, 1)
        staticAfter == IF copy.shared THEN merged.table ELSE static
        index == generateBoundActions(staticAfter, merged.table)
    IN [static |-> staticAfter,
        bindings |-> merged.table,
        boundActions |-> IF merged.threw \/ index.threw
                         THEN oldBoundActions ELSE index.boundActions,
        threw |-> merged.threw \/ index.threw]

\* No generateBoundActions call has been made by the application.
NoIndexes ==
    [called |-> FALSE, T1 |-> <<>>, T2 |-> <<>>,
     first |-> [threw |-> FALSE, boundActions |-> <<>>],
     second |-> [threw |-> FALSE, boundActions |-> <<>>],
     merged |-> [threw |-> FALSE, boundActions |-> <<>>]]

\* The Settings singleton and the Controls fields loadSettings fills in, with
\* nothing saved in local storage before.
BindingsInit ==
    /\ settingsObject = DEFAULT_SETTINGS
    /\ localStorage = DEFAULT_SETTINGS
    /\ staticBindings = Bindings
    /\ customControls = DEFAULT_SETTINGS.controls
    /\ sharesControls = TRUE
    /\ movementDeadzone = DEFAULT_SETTINGS.movement_deadzone
    /\ bindings = RegisterBindingsBody(Bindings, <<>>, <<>>, <<>>).bindings
    /\ boundActions = RegisterBindingsBody(Bindings, <<>>, <<>>, <<>>).boundActions
    /\ indexes = NoIndexes

\* No method of Controls has run yet.
NoCall == ""

\* Controls.constructor
ControlsInit ==
    /\ registeredEntities = <<>>
    /\ controlsEnabled = TRUE
    /\ hasController = FALSE
    /\ previousInput = <<>>
    /\ scheduledTicks = 0
    /\ consoleErrors = 0
    /\ threw = FALSE
    /\ lastCall = NoCall
    /\ pointerLockState = "undefined"
    /\ pointerLocked = FALSE
    /\ pointerCalls = <<>>
    /\ BindingsInit

\* The entities as they are, and no exception thrown.
World == [ents |-> [ent \in Entities |-> Fields(ent)], threw |-> FALSE]

\* `this.registeredEntities.forEach(entity => { entity.inputDevice =
\* inputDevice; entity.setAction(action, value); })`, from the i-th entry on:
\* an object without setAction ends the loop with a TypeError.
RECURSIVE ForEachSetAction(_, _, _, _, _)
ForEachSetAction(W, i, action, value, device) ==
    IF W.threw \/ i > Len(registeredEntities) THEN W
    ELSE LET ent == registeredEntities[i]
         IN IF ent \notin Entities THEN [W EXCEPT !.threw = TRUE]
            ELSE ForEachSetAction(
                    [W EXCEPT !.ents[ent] =
                        SetActionBody([@ EXCEPT !.inputDevice = device], action, value)],
                    i + 1, action, value, device)

\* `for (let action of actionList) ...`, from the j-th action on.
RECURSIVE ForEachAction(_, _, _, _, _)
ForEachAction(W, actionList, j, value, device) ==
    IF W.threw \/ j > Len(actionList) THEN W
    ELSE ForEachAction(ForEachSetAction(W, 1, actionList[j], value, device),
                       actionList, j + 1, value, device)

\* Variant of Enabled: the flag is not consulted.
EnabledAlways(W) == TRUE

\* `if (!this.controlsEnabled) return;` of setActions and onMouseMove.
Enabled(W) == controlsEnabled

\* The body of Controls.setActions(key, value, inputDevice) on the world W.
SetActionsBody(W, key, value, device) ==
    IF ~Enabled(W) THEN W
    ELSE ForEachAction(W, getActionList(key), 1, value, device)

\* `this.registeredEntities.forEach(entity => entity.setMouseMovement(x, y))`.
RECURSIVE ForEachMouseMovement(_, _, _, _, _)
ForEachMouseMovement(W, i, x, y, isOffline) ==
    IF W.threw \/ i > Len(registeredEntities) THEN W
    ELSE LET ent == registeredEntities[i]
         IN IF ent \notin Entities THEN [W EXCEPT !.threw = TRUE]
            ELSE ForEachMouseMovement(
                    [W EXCEPT !.ents[ent] = SetMouseMovementBody(@, x, y, isOffline)],
                    i + 1, x, y, isOffline)

\* No entity's sendInput count passes the bound.
WithinSends(W) == \A ent \in Entities : W.ents[ent].sendInputs <= MaxSends

\* The world W becomes the state.
Commit(W) ==
    /\ WithinSends(W)
    /\ Become(W.ents)
    /\ threw' = W.threw

\* Controls.setActions(key, value, inputDevice)
setActions(key, value, device) ==
    /\ lastCall' = "setActions"
    /\ Commit(SetActionsBody(World, key, value, device))
    /\ UNCHANGED <<registeredEntities, controlsEnabled, hasController, previousInput,
                   scheduledTicks>>
    /\ consoleErrors' = 0
    /\ UNCHANGED <<netVars, httpVars, pointerVars, bindingVars, settingsVars, physicsVars, eventsVars, engineVars>>

\* The document's 'keydown' listener.
keydown(keyCode) == setActions(keyCode, Pressed, "keyboard")
\* The document's 'keyup' listener.
keyup(keyCode) == setActions(keyCode, 0, "keyboard")
\* The document's 'mousedown' listener.
mousedown(button) == setActions(button, Pressed, "keyboard")
\* The document's 'mouseup' listener.
mouseup(button) == setActions(button, 0, "keyboard")

\* Controls.onMouseMove(e)
onMouseMove(x, y, isOffline) ==
    /\ lastCall' = "onMouseMove"
    /\ Commit(IF ~Enabled(World) THEN World
              ELSE ForEachMouseMovement(World, 1, x, y, isOffline))
    /\ UNCHANGED <<registeredEntities, controlsEnabled, hasController, previousInput,
                   scheduledTicks>>
    /\ consoleErrors' = 0
    /\ UNCHANGED <<netVars, httpVars, pointerVars, bindingVars, settingsVars, physicsVars, eventsVars, engineVars>>

\* Controls.enable()
enable ==
    /\ lastCall' = "enable"
    /\ controlsEnabled' = TRUE
    /\ threw' = FALSE
    /\ UNCHANGED <<registeredEntities, hasController, previousInput, scheduledTicks>>
    /\ consoleErrors' = 0
    /\ UNCHANGED <<netVars, httpVars, entityVars, pointerVars, bindingVars, settingsVars, physicsVars, eventsVars, engineVars>>

\* What window.engine can be when disable() runs: not defined; a game engine
\* whose getMainPlayer() returns an entity or null; the Engine of this
\* repository, which has no getMainPlayer.
WindowEngines == {"undefined", "game", "Engine"}

\* Controls.disable(), with window.engine and what getMainPlayer() returns.
disable(windowEngine, mainPlayer) ==
    /\ lastCall' = "disable"
    /\ IF windowEngine = "undefined"
       THEN /\ UNCHANGED <<controlsEnabled, entityVars>>
            /\ threw' = FALSE
       ELSE /\ controlsEnabled' = FALSE
            /\ IF windowEngine = "Engine"
               THEN /\ threw' = TRUE
                    /\ UNCHANGED entityVars
               ELSE /\ threw' = FALSE
                    /\ IF mainPlayer = Null
                       THEN UNCHANGED entityVars
                       ELSE /\ sendInputs[mainPlayer] < MaxSends
                            /\ Become(With(mainPlayer, ClearInputBody(Fields(mainPlayer))))
    /\ UNCHANGED <<registeredEntities, hasController, previousInput, scheduledTicks>>
    /\ consoleErrors' = 0
    /\ UNCHANGED <<netVars, httpVars, pointerVars, bindingVars, settingsVars, physicsVars, eventsVars, engineVars>>

\* `if (!entity || !entity.actions)` of registerEntity and unregisterEntity.
NotAnEntity(entity) == entity = Null \/ entity = BareObject

\* Map.set(key, value): a new key goes last, a present key keeps its place.
MapSet(map, key) ==
    IF \E i \in 1..Len(map) : map[i] = key THEN map ELSE Append(map, key)

\* Variant of MapDelete: the key stays.
MapDeleteNothing(map, key) == map

\* Map.delete(key)
MapDelete(map, key) == SelectSeq(map, LAMBDA k : k # key)

\* Controls.registerEntity(entity): the error is reported and the entity is
\* registered all the same; reading null.uuid throws.
registerEntity(entity) ==
    /\ lastCall' = "registerEntity"
    /\ consoleErrors' = IF NotAnEntity(entity) THEN 1 ELSE 0
    /\ IF entity = Null
       THEN /\ threw' = TRUE
            /\ UNCHANGED registeredEntities
       ELSE /\ threw' = FALSE
            /\ registeredEntities' = MapSet(registeredEntities, entity)
    /\ UNCHANGED <<controlsEnabled, hasController, previousInput, scheduledTicks>>
    /\ UNCHANGED <<netVars, httpVars, entityVars, pointerVars, bindingVars, settingsVars, physicsVars, eventsVars, engineVars>>

\* Controls.unregisterEntity(entity): reading null.uuid throws, and so does
\* clearInput() on an object that has none.
unregisterEntity(entity) ==
    /\ lastCall' = "unregisterEntity"
    /\ consoleErrors' = IF NotAnEntity(entity) THEN 1 ELSE 0
    /\ IF entity = Null
       THEN /\ threw' = TRUE
            /\ UNCHANGED <<registeredEntities, entityVars>>
       ELSE /\ registeredEntities' = MapDelete(registeredEntities, entity)
            /\ IF entity = BareObject
               THEN /\ threw' = TRUE
                    /\ UNCHANGED entityVars
               ELSE /\ threw' = FALSE
                    /\ sendInputs[entity] < MaxSends
                    /\ Become(With(entity, ClearInputBody(Fields(entity))))
    /\ UNCHANGED <<controlsEnabled, hasController, previousInput, scheduledTicks>>
    /\ UNCHANGED <<netVars, httpVars, pointerVars, bindingVars, settingsVars, physicsVars, eventsVars, engineVars>>

\* Variant of OutOfDeadzone: any non-zero value counts as out of the deadzone.
OutOfDeadzoneNonZero(val) == val # 0

\* |val| > this.movementDeadzone, for a value in tenths.
OutOfDeadzone(val) == (IF val < 0 THEN -val ELSE val) * 10 > movementDeadzone

\* Variant of PreviousHadValue: an entry of any value counts.
PreviousHadEntry(key) == key \in DOMAIN previousInput

\* `this.previousInput[key] && this.previousInput[key] !== 0`
PreviousHadValue(key) ==
    key \in DOMAIN previousInput /\ previousInput[key] # 0

\* Variant of getRawControllerInput: each axis has a deadzone of its own.
getRawControllerInputPerAxis(axes, button) ==
    LET input == [key \in {"axes0", "axes1", "button5"} |->
                    CASE key = "axes0" -> IF OutOfDeadzone(axes[1]) THEN -axes[1] ELSE 0
                      [] key = "axes1" -> IF OutOfDeadzone(axes[2]) THEN -axes[2] ELSE 0
                      [] OTHER -> IF OutOfDeadzone(button) THEN button ELSE 0]
        kept == {key \in DOMAIN input : ~(input[key] = 0 /\ ~PreviousHadValue(key))}
    IN [key \in kept |-> input[key]]

\* Controls.getRawControllerInput() while a controller is present, for a
\* gamepad whose axes read `axes` and whose button 5 reads `button`: the axes
\* are reversed once any axis leaves the deadzone, and a zero is reported only
\* after a non-zero reading of the same key.
getRawControllerInput(axes, button) ==
    LET isOutOfDeadzone == \E i \in 1..Len(axes) : OutOfDeadzone(axes[i])
        input == [key \in {"axes0", "axes1", "button5"} |->
                    CASE key = "axes0" -> IF isOutOfDeadzone THEN -axes[1] ELSE 0
                      [] key = "axes1" -> IF isOutOfDeadzone THEN -axes[2] ELSE 0
                      [] OTHER -> IF OutOfDeadzone(button) THEN button ELSE 0]
        kept == {key \in DOMAIN input : ~(input[key] = 0 /\ ~PreviousHadValue(key))}
    IN [key \in kept |-> input[key]]

\* `for (let key of Object.keys(rawControllerInput)) this.setActions(key,
\* rawControllerInput[key], 'controller')`, from the n-th key on.
RECURSIVE ForEachKey(_, _, _, _)
ForEachKey(W, keys, n, rawControllerInput) ==
    IF W.threw \/ n > Len(keys) THEN W
    ELSE ForEachKey(SetActionsBody(W, keys[n], rawControllerInput[keys[n]], "controller"),
                    keys, n + 1, rawControllerInput)

\* The body of controllerTick while a controller is present, with `pending`
\* callbacks still scheduled: the next tick is scheduled unless a setActions
\* threw.
ControllerTickBody(axes, button, pending) ==
    LET rawControllerInput == getRawControllerInput(axes, button)
        keys == SelectSeq(ControllerKeys, LAMBDA key : key \in DOMAIN rawControllerInput)
        W == ForEachKey(World, keys, 1, rawControllerInput)
    IN /\ Commit(W)
       /\ previousInput' = rawControllerInput
       /\ scheduledTicks' = IF W.threw THEN pending ELSE pending + 1

\* Controls.startPollingController(), the 'gamepadconnected' listener.
startPollingController(axes, button) ==
    /\ lastCall' = "startPollingController"
    /\ hasController \/ scheduledTicks < MaxTicks
    /\ IF hasController
       THEN /\ threw' = FALSE
            /\ UNCHANGED <<hasController, previousInput, scheduledTicks, entityVars>>
       ELSE /\ hasController' = TRUE
            /\ ControllerTickBody(axes, button, scheduledTicks)
    /\ UNCHANGED <<registeredEntities, controlsEnabled>>
    /\ consoleErrors' = 0
    /\ UNCHANGED <<netVars, httpVars, pointerVars, bindingVars, settingsVars, physicsVars, eventsVars, engineVars>>

\* Controls.stopPollingController(), the 'gamepaddisconnected' listener.
stopPollingController ==
    /\ lastCall' = "stopPollingController"
    /\ hasController' = FALSE
    /\ threw' = FALSE
    /\ UNCHANGED <<registeredEntities, controlsEnabled, previousInput, scheduledTicks>>
    /\ consoleErrors' = 0
    /\ UNCHANGED <<netVars, httpVars, entityVars, pointerVars, bindingVars, settingsVars, physicsVars, eventsVars, engineVars>>

\* Controls.controllerTick(), run as the scheduled animation-frame callback.
controllerTick(axes, button) ==
    /\ lastCall' = "controllerTick"
    /\ scheduledTicks > 0
    /\ IF hasController
       THEN ControllerTickBody(axes, button, scheduledTicks - 1)
       ELSE /\ scheduledTicks' = scheduledTicks - 1
            /\ threw' = FALSE
            /\ UNCHANGED <<previousInput, entityVars>>
    /\ UNCHANGED <<registeredEntities, controlsEnabled, hasController>>
    /\ consoleErrors' = 0
    /\ UNCHANGED <<netVars, httpVars, pointerVars, bindingVars, settingsVars, physicsVars, eventsVars, engineVars>>

\* The values of this.pointerLockState; the constructor leaves it undefined.
PointerLockStates == {"undefined", "true", "false"}

\* The pointer-lock state as one record.
Pointer ==
    [state |-> pointerLockState, locked |-> pointerLocked, calls |-> <<>>]

\* The pointer-lock state becomes p.
BecomePointer(p) ==
    /\ pointerLockState' = p.state
    /\ pointerLocked' = p.locked
    /\ pointerCalls' = p.calls

\* Variant of RequestRefused: a forced state never refuses a lock request.
RequestRefusedNever(p) == FALSE

\* `if (this.pointerLockState === false) return;` of requestPointerLock.
RequestRefused(p) == p.state = "false"

\* `if (this.pointerLockState === true) return;` of exitPointerLock.
ExitRefused(p) == p.state = "true"

\* The body of Controls.requestPointerLock() on the pointer-lock state p:
\* hasRenderer is `window.engine && window.engine.renderer`, and granted tells
\* whether the browser gives the lock.
RequestPointerLockBody(p, hasRenderer, granted) ==
    IF RequestRefused(p) \/ ~hasRenderer THEN p
    ELSE [p EXCEPT !.calls = Append(@, "requestPointerLock"),
                   !.locked = IF granted THEN TRUE ELSE @]

\* The body of Controls.exitPointerLock() on the pointer-lock state p.
ExitPointerLockBody(p) ==
    IF ExitRefused(p) THEN p
    ELSE [p EXCEPT !.calls = Append(@, "exitPointerLock"), !.locked = FALSE]

\* The body of Controls.forcePointerLockState(state).
ForcePointerLockStateBody(p, state, hasRenderer, granted) ==
    LET forced == [p EXCEPT !.state = state]
    IN CASE state = "true" -> RequestPointerLockBody(forced, hasRenderer, granted)
         [] state = "false" -> ExitPointerLockBody(forced)
         [] OTHER -> forced

\* What a pointer-lock method leaves alone.
PointerFrame ==
    /\ consoleErrors' = 0
    /\ threw' = FALSE
    /\ UNCHANGED <<registeredEntities, controlsEnabled, hasController, previousInput,
                   scheduledTicks>>
    /\ UNCHANGED <<netVars, httpVars, entityVars, bindingVars, settingsVars, physicsVars, eventsVars, engineVars>>

\* Controls.requestPointerLock()
requestPointerLock(hasRenderer, granted) ==
    /\ lastCall' = "requestPointerLock"
    /\ BecomePointer(RequestPointerLockBody(Pointer, hasRenderer, granted))
    /\ PointerFrame

\* Controls.exitPointerLock()
exitPointerLock ==
    /\ lastCall' = "exitPointerLock"
    /\ BecomePointer(ExitPointerLockBody(Pointer))
    /\ PointerFrame

\* Controls.forcePointerLockState(state)
forcePointerLockState(state, hasRenderer, granted) ==
    /\ lastCall' = "forcePointerLockState"
    /\ BecomePointer(ForcePointerLockStateBody(Pointer, state, hasRenderer, granted))
    /\ PointerFrame

\* Controls.onMouseClick(e): onCanvas is `e.target == engine.renderer.domElement`.
onMouseClick(hasRenderer, onCanvas, granted) ==
    /\ lastCall' = "onMouseClick"
    /\ BecomePointer(IF hasRenderer /\ onCanvas
                     THEN RequestPointerLockBody(Pointer, hasRenderer, granted)
                     ELSE Pointer)
    /\ PointerFrame

\* Controls.reset(): the registry is replaced by an empty Map and the forced
\* pointer-lock state is dropped; no entity is touched.
reset ==
    /\ lastCall' = "reset"
    /\ registeredEntities' = <<>>
    /\ BecomePointer(ForcePointerLockStateBody(Pointer, "undefined", FALSE, FALSE))
    /\ consoleErrors' = 0
    /\ threw' = FALSE
    /\ UNCHANGED <<controlsEnabled, hasController, previousInput, scheduledTicks>>
    /\ UNCHANGED <<netVars, httpVars, entityVars, bindingVars, settingsVars, physicsVars, eventsVars, engineVars>>

ControlsNext ==
    \/ \E keyCode \in KeyCodes : keydown(keyCode)
    \/ \E keyCode \in KeyCodes : keyup(keyCode)
    \/ \E button \in MouseButtons : mousedown(button)
    \/ \E button \in MouseButtons : mouseup(button)
    \/ \E e \in MouseMovements, isOffline \in BOOLEAN : onMouseMove(e[1], e[2], isOffline)
    \/ enable
    \/ \E windowEngine \in WindowEngines, mainPlayer \in Entities \cup {Null} :
          disable(windowEngine, mainPlayer)
    \/ \E entity \in Candidates : registerEntity(entity)
    \/ \E entity \in Candidates : unregisterEntity(entity)

PointerNext ==
    \/ \E hasRenderer, granted \in BOOLEAN : requestPointerLock(hasRenderer, granted)
    \/ exitPointerLock
    \/ \E state \in PointerLockStates, hasRenderer, granted \in BOOLEAN :
          forcePointerLockState(state, hasRenderer, granted)
    \/ \E hasRenderer, onCanvas, granted \in BOOLEAN :
          onMouseClick(hasRenderer, onCanvas, granted)
    \/ reset
    \/ \E entity \in Candidates : registerEntity(entity)
    \/ \E keyCode \in KeyCodes : keydown(keyCode)

PollingNext ==
    \/ \E entity \in Candidates : registerEntity(entity)
    \/ \E axes \in GamepadAxes, button \in ButtonValues :
          startPollingController(axes, button)
    \/ stopPollingController
    \/ \E axes \in GamepadAxes, button \in ButtonValues :
          controllerTick(axes, button)

\* ================================================================= Settings and bindings

\* What the methods below leave alone.
BindingsFrame ==
    UNCHANGED <<netVars, httpVars, entityVars, physicsVars, eventsVars, engineVars,
                pointerVars,
                registeredEntities, controlsEnabled, hasController,
                previousInput, scheduledTicks>>

\* The application writes the fields of Settings.settingsObject: the controls
\* object is either edited in place or replaced by a new object.
editSettings(controls, deadzone, inPlace) ==
    /\ settingsObject' = [controls |-> controls, movement_deadzone |-> deadzone]
    /\ sharesControls' = (sharesControls /\ (inPlace \/ controls = settingsObject.controls))
    /\ customControls' = IF sharesControls /\ inPlace THEN controls ELSE customControls
    /\ UNCHANGED <<localStorage, staticBindings, bindings, boundActions,
                   movementDeadzone, indexes, lastCall, consoleErrors, threw>>
    /\ BindingsFrame

\* Controls.registerBindings()
registerBindings ==
    LET r == RegisterBindingsBody(staticBindings, customControls, bindings, boundActions)
    IN /\ staticBindings' = r.static
       /\ bindings' = r.bindings
       /\ boundActions' = r.boundActions
       /\ threw' = r.threw
       /\ consoleErrors' = 0
       /\ lastCall' = "registerBindings"
       /\ UNCHANGED <<customControls, sharesControls, movementDeadzone, indexes,
                      settingsVars>>
       /\ BindingsFrame

\* Controls.loadSettings()
loadSettings ==
    LET r == RegisterBindingsBody(staticBindings, settingsObject.controls,
                                  bindings, boundActions)
    IN /\ movementDeadzone' = settingsObject.movement_deadzone
       /\ customControls' = settingsObject.controls
       /\ sharesControls' = TRUE
       /\ staticBindings' = r.static
       /\ bindings' = r.bindings
       /\ boundActions' = r.boundActions
       /\ threw' = r.threw
       /\ consoleErrors' = 0
       /\ lastCall' = "loadSettings"
       /\ UNCHANGED <<indexes, settingsVars>>
       /\ BindingsFrame

\* Controls has a listener of the SettingsEvent: the constructor hands
\* SettingsEvent.listen `this.handleSettingsChange.bind(this)`, and neither
\* Controls nor Plugin defines handleSettingsChange, so none is installed.
ControlsListens == FALSE

\* Settings.apply(): the settings are saved and a SettingsEvent is fired to
\* the listeners there are.
apply ==
    /\ localStorage' = settingsObject
    /\ UNCHANGED settingsObject
    /\ IF ControlsListens
       THEN LET r == RegisterBindingsBody(staticBindings, settingsObject.controls,
                                          bindings, boundActions)
            IN /\ movementDeadzone' = settingsObject.movement_deadzone
               /\ customControls' = settingsObject.controls
               /\ sharesControls' = TRUE
               /\ staticBindings' = r.static
               /\ bindings' = r.bindings
               /\ boundActions' = r.boundActions
               /\ threw' = r.threw
               /\ consoleErrors' = 0
               /\ lastCall' = "loadSettings"
       ELSE UNCHANGED <<movementDeadzone, customControls, sharesControls,
                        staticBindings, bindings, boundActions, threw,
                        consoleErrors, lastCall>>
    /\ UNCHANGED indexes
    /\ BindingsFrame

SettingsNext ==
    \/ \E controls \in ControlsSamples, deadzone \in DeadzoneSamples, inPlace \in BOOLEAN :
          editSettings(controls, deadzone, inPlace)
    \/ apply
    \/ loadSettings
    \/ registerBindings

\* Bindings a table can declare: three of the default ones, FIRE, which the
\* default table does not have, and LEFT under another id than the default's.
Catalogue ==
    << [name |-> "BACKWARD", binding_id |-> 0, keys |-> <<"83", "axes1">>],
       [name |-> "FORWARD", binding_id |-> 5, keys |-> <<"87", "axes1">>],
       [name |-> "SPRINT", binding_id |-> 8, keys |-> <<"16", "button5">>],
       [name |-> "FIRE", binding_id |-> 9, keys |-> <<"32", "button5">>],
       [name |-> "LEFT", binding_id |-> 11, keys |-> <<"65", "axes0">>] >>

\* The names of the bindings of table.
Names(table) == {table[i].name : i \in 1..Len(table)}

\* The table of the catalogue's bindings called names.
Table(names) == SelectSeq(Catalogue, LAMBDA b : b.name \in names)

\* The pairs of tables that share no binding.
TablePairs ==
    {<<Table(n1), Table(n2)>> :
        <<n1, n2>> \in {p \in (SUBSET Names(Catalogue)) \X (SUBSET Names(Catalogue)) :
                           p[1] # {} /\ p[2] # {} /\ p[1] \cap p[2] = {}}}

\* T1.merge(T2): the bindings of T1, and those of T2 under a name T1 does
\* not have.
merge(T1, T2) ==
    T1 \o SelectSeq(T2, LAMBDA b : IndexOfName(T1, b.name) = 0)

\* The application builds the action index of T1, of T2 and of merge(T1, T2).
generateIndexes(T1, T2) ==
    /\ indexes' = [called |-> TRUE, T1 |-> T1, T2 |-> T2,
                   first |-> generateBoundActions(staticBindings, T1),
                   second |-> generateBoundActions(staticBindings, T2),
                   merged |-> generateBoundActions(staticBindings, merge(T1, T2))]
    /\ threw' = generateBoundActions(staticBindings, merge(T1, T2)).threw
    /\ consoleErrors' = 0
    /\ lastCall' = "generateBoundActions"
    /\ UNCHANGED <<staticBindings, bindings, boundActions, customControls,
                   sharesControls, movementDeadzone, settingsVars>>
    /\ BindingsFrame

IndexNext ==
    \E pair \in TablePairs : generateIndexes(pair[1], pair[2])

\* ================================================================= Entity physics

\* `const precision = 4`: the number of decimals of a serialized value.
precision == 4
\* Numbers are counted in units of 10^-5, one decimal more than precision.
Unit == 5
\* The number of units in the last decimal kept.
Scale == 10 ^ (Unit - precision)

\* JavaScript values: null, undefined, numbers (value in units), the decimal
\* strings toFixed makes (neg is the minus sign, value the digits, in units
\* of the last decimal) and arrays.
JsNull == [type |-> "null", neg |-> FALSE, value |-> 0, items |-> <<>>]
JsUndefined == [type |-> "undefined", neg |-> FALSE, value |-> 0, items |-> <<>>]
Num(n) == [type |-> "number", neg |-> FALSE, value |-> n, items |-> <<>>]
Str(neg, digits) == [type |-> "string", neg |-> neg, value |-> digits, items |-> <<>>]
Arr(items) == [type |-> "array", neg |-> FALSE, value |-> 0, items |-> items]

\* `!physics`: null and undefined are falsy, an array is not.
Falsy(v) == v.type \in {"null", "undefined"}

\* Number.prototype.toFixed(precision): the decimal string of the nearest
\* multiple of the last decimal, with the sign of a negative number.
toFixed(v) ==
    LET m == IF v.value < 0 THEN -v.value ELSE v.value
    IN Str(v.value < 0, (m + Scale \div 2) \div Scale)

\* The number a value is converted to when it is stored in a typed array.
ToNumber(v) ==
    IF v.type = "string" THEN Num((IF v.neg THEN -1 ELSE 1) * v.value * Scale) ELSE v

\* vec.map((x) => x.toFixed(precision)) on a two-element vector.
MapToFixed(vec) == Arr(<<toFixed(vec.items[1]), toFixed(vec.items[2])>>)

\* this.physicsBody is null.
NoBody ==
    [present |-> FALSE, typed |-> FALSE, angularVelocity |-> Num(0), angle |-> Num(0),
     position |-> Arr(<<Num(0), Num(0)>>), interpolatedPosition |-> Arr(<<Num(0), Num(0)>>),
     velocity |-> Arr(<<Num(0), Num(0)>>)]

\* A p2 body; typed says that its vectors are typed arrays (Float32Array, the
\* library's choice where the browser has it) and not plain arrays.
Body(typed, av, a, pos, ipos, velo) ==
    [present |-> TRUE, typed |-> typed, angularVelocity |-> Num(av), angle |-> Num(a),
     position |-> Arr(<<Num(pos[1]), Num(pos[2])>>),
     interpolatedPosition |-> Arr(<<Num(ipos[1]), Num(ipos[2])>>),
     velocity |-> Arr(<<Num(velo[1]), Num(velo[2])>>)]

\* Bodies the physics engine leaves an entity with: at rest at the origin, and
\* moving, with values of more than four decimals and a small negative one.
BodySamples ==
    {Body(typed, 0, 0, <<0, 0>>, <<0, 0>>, <<0, 0>>) : typed \in BOOLEAN}
    \cup {Body(typed, 123456, -4, <<200000, -150003>>, <<200000, -150003>>, <<-4, 99999>>) :
             typed \in BOOLEAN}

\* Entity.constructor: no physics body, nothing serialized yet.
PhysicsInit ==
    /\ physicsBody = [ent \in Entities |-> NoBody]
    /\ snapshot = [ent \in Entities |-> JsUndefined]

\* `x.toFixed(precision)` throws a TypeError: x is no number (arrays and
\* strings have no toFixed).
ToFixedThrows(v) == v.type # "number"

\* serializePhysics throws: some value it formats is no number.
SerializePhysicsThrows(body) ==
    /\ body.present
    /\ \/ ToFixedThrows(body.angularVelocity)
       \/ \E i \in 1..2 : ToFixedThrows(body.interpolatedPosition.items[i])
       \/ \E i \in 1..2 : ToFixedThrows(body.velocity.items[i])
       \/ ToFixedThrows(body.angle)

\* The value Entity.serializePhysics() returns for the body.
SerializePhysicsBody(body) ==
    IF ~body.present THEN JsNull
    ELSE Arr(<< Arr(<<toFixed(body.angularVelocity)>>),
                MapToFixed(body.interpolatedPosition),
                MapToFixed(body.velocity),
                Arr(<<toFixed(body.angle)>>) >>)

\* p2.vec2.copy(out, a) on a body whose vectors are typed arrays or not:
\* `out[0] = a[0]; out[1] = a[1]`.
Vec2Copy(typed, a) ==
    IF typed THEN Arr(<<ToNumber(a.items[1]), ToNumber(a.items[2])>>) ELSE Arr(<<a.items[1], a.items[2]>>)

\* The body of Entity.consumeUpdate(physics): the physics body after it, and
\* whether it threw (`this.physicsBody.angularVelocity` of a null body).
ConsumeUpdateBody(body, physics) ==
    IF Falsy(physics) THEN [body |-> body, threw |-> FALSE]
    ELSE IF ~body.present THEN [body |-> body, threw |-> TRUE]
    ELSE [body |-> [body EXCEPT !.angularVelocity = physics.items[1],
                                !.angle = physics.items[4],
                                !.position = Vec2Copy(body.typed, physics.items[2]),
                                !.velocity = Vec2Copy(body.typed, physics.items[3])],
          threw |-> FALSE]

\* What the physics methods leave alone.
PhysicsFrame ==
    UNCHANGED <<netVars, httpVars, entityVars, pointerVars, bindingVars, settingsVars,
                eventsVars, engineVars, registeredEntities, controlsEnabled, hasController,
                previousInput, scheduledTicks, consoleErrors>>

\* The physics engine gives the entity a body, or moves the one it has.
generatePhysicsBody(ent, body) ==
    /\ physicsBody' = [physicsBody EXCEPT ![ent] = body]
    /\ lastCall' = "generatePhysicsBody"
    /\ threw' = FALSE
    /\ UNCHANGED snapshot
    /\ PhysicsFrame

\* Entity.serializePhysics(); the value returned is kept as the snapshot.
serializePhysics(ent) ==
    /\ snapshot' = IF SerializePhysicsThrows(physicsBody[ent]) THEN snapshot
                   ELSE [snapshot EXCEPT ![ent] = SerializePhysicsBody(physicsBody[ent])]
    /\ lastCall' = "serializePhysics"
    /\ threw' = SerializePhysicsThrows(physicsBody[ent])
    /\ UNCHANGED physicsBody
    /\ PhysicsFrame

\* Entity.consumeUpdate(physics)
consumeUpdate(ent, physics) ==
    /\ physicsBody' = [physicsBody EXCEPT ![ent] = ConsumeUpdateBody(physicsBody[ent], physics).body]
    /\ threw' = ConsumeUpdateBody(physicsBody[ent], physics).threw
    /\ lastCall' = "consumeUpdate"
    /\ UNCHANGED snapshot
    /\ PhysicsFrame

\* The snapshots consumeUpdate can be handed: none, or one an entity made.
Snapshots == {JsNull, JsUndefined} \cup {snapshot[ent] : ent \in Entities}

PhysicsNext ==
    \/ \E ent \in Entities, body \in BodySamples : generatePhysicsBody(ent, body)
    \/ \E ent \in Entities : serializePhysics(ent)
    \/ \E ent \in Entities, physics \in Snapshots : consumeUpdate(ent, physics)


\* ================================================================= Events

\* Event labels listeners are registered for and events are fired with.
Labels == {"reset", "settings"}
\* A falsy label (undefined).
NoLabel == ""
\* A context that is not set (undefined).
NoContext == ""
\* Context tokens of events and of listeners.
Contexts == {NoContext, "a", "b"}
\* The context property of a callback: unset, or a token.
CallbackContexts == {NoContext, "a"}

\* Events.constructor
EventsInit ==
    /\ registeredListeners = <<>>
    /\ registeredUUIDs = <<>>
    /\ uuidsCreated = 0
    /\ delivered = <<>>
    /\ returned = [method |-> "", label |-> NoLabel, context |-> NoContext, uuid |-> 0,
                   value |-> "undefined"]

\* map.set(key, value) on a map kept as a function.
Put(map, key, value) ==
    [k \in DOMAIN map \cup {key} |-> IF k = key THEN value ELSE map[k]]

\* listeners.delete(uuid): the listeners without the one called uuid.
Without(callbacks, uuid) == SelectSeq(callbacks, LAMBDA l : l.uuid # uuid)

\* Variant of Passes: the listener's context is not looked at.
PassesAlways(callback, context) == TRUE

\* `!callback.context || callback.context == context`
Passes(callback, context) ==
    callback.context = NoContext \/ callback.context = context

\* callbacks.forEach(...) of fireEvent from position i on; W is [callbacks,
\* invoked]. A one-shot callback removes itself (removeListener of its own
\* uuid) while it runs; forEach goes on with the entry that follows.
RECURSIVE ForEachCallback(_, _, _)
ForEachCallback(W, context, i) ==
    IF i > Len(W.callbacks) THEN W
    ELSE LET callback == W.callbacks[i]
         IN IF ~Passes(callback, context) THEN ForEachCallback(W, context, i + 1)
            ELSE IF callback.once
            THEN ForEachCallback([callbacks |-> Without(W.callbacks, callback.uuid),
                                  invoked |-> Append(W.invoked, callback.uuid)],
                                 context, i)
            ELSE ForEachCallback([W EXCEPT !.invoked = Append(@, callback.uuid)],
                                 context, i + 1)

\* What the methods of Events leave alone.
EventsFrame ==
    UNCHANGED <<netVars, httpVars, entityVars, controlsVars, physicsVars, engineVars>>

\* Events.fireEvent(label, data, context)
fireEvent(label, context) ==
    /\ IF label \notin DOMAIN registeredListeners
       THEN /\ delivered' = <<>>
            /\ returned' = [method |-> "fireEvent", label |-> label, context |-> context,
                            uuid |-> 0, value |-> "false"]
            /\ UNCHANGED registeredListeners
       ELSE LET W == ForEachCallback([callbacks |-> registeredListeners[label],
                                      invoked |-> <<>>], context, 1)
            IN /\ delivered' = W.invoked
               /\ registeredListeners' = [registeredListeners EXCEPT ![label] = W.callbacks]
               /\ returned' = [method |-> "fireEvent", label |-> label, context |-> context,
                               uuid |-> 0, value |-> "undefined"]
    /\ UNCHANGED <<registeredUUIDs, uuidsCreated>>
    /\ EventsFrame

\* Events.addListener(label, callback): callback is a function (with the
\* context it has, one-shot or not) or is missing.
addListener(label, isFunction, context, once) ==
    /\ uuidsCreated < MaxListeners
    /\ IF label = NoLabel \/ ~isFunction
       THEN /\ returned' = [method |-> "addListener", label |-> label, context |-> context,
                            uuid |-> 0, value |-> "false"]
            /\ UNCHANGED <<registeredListeners, registeredUUIDs, uuidsCreated>>
       ELSE LET listenerUUID == uuidsCreated + 1
                ofLabel == IF label \in DOMAIN registeredListeners
                           THEN registeredListeners[label] ELSE <<>>
            IN /\ registeredListeners' =
                      Put(registeredListeners, label,
                          Append(ofLabel, [uuid |-> listenerUUID, context |-> context,
                                             once |-> once]))
               /\ registeredUUIDs' = Put(registeredUUIDs, listenerUUID, label)
               /\ uuidsCreated' = listenerUUID
               /\ returned' = [method |-> "addListener", label |-> label,
                               context |-> context, uuid |-> listenerUUID, value |-> "uuid"]
    /\ UNCHANGED delivered
    /\ EventsFrame

\* Variant of RemoveListenerReturns: a uuid that was registered once counts.
RemoveListenerReturnsKnown(uuid) == uuid \in DOMAIN registeredUUIDs

\* The value of `listeners.delete(uuid)` in removeListener: the uuid has a
\* label and that label's listeners have it.
RemoveListenerReturns(uuid) ==
    /\ uuid \in DOMAIN registeredUUIDs
    /\ registeredUUIDs[uuid] \in DOMAIN registeredListeners
    /\ \E i \in 1..Len(registeredListeners[registeredUUIDs[uuid]]) :
          registeredListeners[registeredUUIDs[uuid]][i].uuid = uuid

\* Events.removeListener(uuid)
removeListener(uuid) ==
    /\ registeredListeners' =
          IF uuid \in DOMAIN registeredUUIDs /\ registeredUUIDs[uuid] \in DOMAIN registeredListeners
          THEN [registeredListeners EXCEPT ![registeredUUIDs[uuid]] = Without(@, uuid)]
          ELSE registeredListeners
    /\ returned' = [method |-> "removeListener", label |-> NoLabel, context |-> NoContext,
                    uuid |-> uuid,
                    value |-> IF RemoveListenerReturns(uuid) THEN "true" ELSE "false"]
    /\ UNCHANGED <<registeredUUIDs, uuidsCreated, delivered>>
    /\ EventsFrame

EventsNext ==
    \/ \E label \in Labels \cup {NoLabel}, context \in Contexts : fireEvent(label, context)
    \/ \E label \in Labels \cup {NoLabel}, isFunction \in BOOLEAN,
          context \in CallbackContexts, once \in BOOLEAN :
          addListener(label, isFunction, context, once)
    \/ \E uuid \in 1..MaxListeners : removeListener(uuid)

\* ================================================================= Engine

EngineInit ==
    /\ started = FALSE
    /\ rendering = FALSE
    /\ resetRender = FALSE
    /\ plugins = 0
    /\ scheduledRenders = 0
    /\ frames = 0
    /\ engineCall = [method |-> "", threw |-> FALSE]

\* The fields of the engine that its render loop reads and writes, with the
\* number of render callbacks requestAnimationFrame holds.
Engine ==
    [started |-> started, rendering |-> rendering, resetRender |-> resetRender,
     scheduledRenders |-> scheduledRenders]

\* The scene exists once start() has run; before that clearScene reads the
\* children of undefined.
ClearSceneThrows(engine) == ~engine.started

\* Engine.render(timeStamp): a pending reset halts the loop, otherwise the next
\* frame is requested.
RenderBody(engine) ==
    IF engine.resetRender
    THEN [engine EXCEPT !.resetRender = FALSE, !.rendering = FALSE]
    ELSE [engine EXCEPT !.scheduledRenders = @ + 1]

\* Engine.reset(): with a plugin installed the forEach callback reads the
\* undeclared timeStamp and throws before anything is written; clearScene
\* throws after resetRender is set; a loop that is still rendering is kept.
ResetBody(engine) ==
    IF plugins > 0 THEN [threw |-> TRUE, engine |-> engine]
    ELSE IF ClearSceneThrows(engine)
    THEN [threw |-> TRUE, engine |-> [engine EXCEPT !.resetRender = TRUE]]
    ELSE IF ~engine.rendering
    THEN [threw |-> FALSE,
          engine |-> RenderBody([engine EXCEPT !.resetRender = TRUE, !.rendering = TRUE])]
    ELSE [threw |-> FALSE, engine |-> [engine EXCEPT !.resetRender = FALSE]]

\* Engine.start(): a started engine is reset first; then the flags are set and
\* a render callback is requested.
StartBody(engine) ==
    LET before == IF engine.started THEN ResetBody(engine)
                  ELSE [threw |-> FALSE, engine |-> engine]
    IN IF before.threw THEN before
       ELSE [threw |-> FALSE,
             engine |-> [before.engine EXCEPT !.started = TRUE, !.rendering = TRUE,
                                              !.scheduledRenders = @ + 1]]

\* The outcome of a method becomes the state of the engine.
BecomeEngine(method, outcome) ==
    /\ started' = outcome.engine.started
    /\ rendering' = outcome.engine.rendering
    /\ resetRender' = outcome.engine.resetRender
    /\ scheduledRenders' = outcome.engine.scheduledRenders
    /\ engineCall' = [method |-> method, threw |-> outcome.threw]

\* What the methods of Engine leave alone.
EngineFrame ==
    UNCHANGED <<netVars, httpVars, entityVars, controlsVars, physicsVars, eventsVars>>

\* Engine.start()
start ==
    /\ scheduledRenders < MaxLoops
    /\ BecomeEngine("start", StartBody(Engine))
    /\ UNCHANGED <<plugins, frames>>
    /\ EngineFrame

\* Engine.reset(), called by the game.
engineReset ==
    /\ BecomeEngine("reset", ResetBody(Engine))
    /\ UNCHANGED <<plugins, frames>>
    /\ EngineFrame

\* The browser runs one of the render callbacks it holds.
render ==
    /\ scheduledRenders > 0
    /\ frames < MaxFrames
    /\ BecomeEngine("render",
                    [threw |-> FALSE,
                     engine |-> RenderBody([Engine EXCEPT !.scheduledRenders = @ - 1])])
    /\ frames' = frames + 1
    /\ UNCHANGED plugins
    /\ EngineFrame

\* Engine.installPlugin(plugin)
installPlugin ==
    /\ plugins < MaxPlugins
    /\ plugins' = plugins + 1
    /\ engineCall' = [method |-> "installPlugin", threw |-> FALSE]
    /\ UNCHANGED <<started, rendering, resetRender, scheduledRenders, frames>>
    /\ EngineFrame

EngineNext ==
    \/ start
    \/ engineReset
    \/ render
    \/ installPlugin

\* ================================================================= specifications

Init == NetInit /\ HttpInit /\ EntityInit /\ ControlsInit /\ PhysicsInit /\ EventsInit
        /\ EngineInit

\* The Network session with its socket and correlated calls.
SpecNet == Init /\ [][NetNext]_vars

\* The plain HTTP calls of the Network session.
SpecHttp == Init /\ [][HttpNext]_vars

\* The entities' action state.
SpecEntity == Init /\ [][EntityNext]_vars

\* Controls alone: key and mouse events, registration, enabling and disabling.
SpecControls == Init /\ [][ControlsNext]_vars

\* Controls alone: pointer lock, reset, registration and key presses.
SpecPointer == Init /\ [][PointerNext]_vars

\* Controls alone: controller polling over the registered entities.
SpecPolling == Init /\ [][PollingNext]_vars

\* Settings edited and applied, and the bindings Controls derives from them.
SpecSettings == Init /\ [][SettingsNext]_vars

\* The action index built from binding tables.
SpecIndex == Init /\ [][IndexNext]_vars

\* The physics snapshots entities make and consume.
SpecPhysics == Init /\ [][PhysicsNext]_vars

\* The event bus.
SpecEvents == Init /\ [][EventsNext]_vars

\* The engine's render loop.
SpecEngine == Init /\ [][EngineNext]_vars


\* ----------------------------------------------------------------- Network claims

CallIds == 1..Len(calls)
\* A correlated or passive call that was accepted.
IsCall(i) == calls[i].kind \in {"emit", "wait"}
\* An accepted call whose promise has not settled.
Outstanding(i) == IsCall(i) /\ calls[i].state = "pending"
CallEndpoints(i) == {calls[i].e, calls[i].r}
OutstandingEmit(i) == Outstanding(i) /\ calls[i].kind = "emit"

C1_AtMostOne ==
    /\ \A x \in Endpoints :
          Cardinality({i \in CallIds : OutstandingEmit(i) /\ x \in CallEndpoints(i)}) <= 1
    /\ \A i \in CallIds : OutstandingEmit(i) => i \in listeners[calls[i].r]

C1_SecondFails ==
    \A e \in Endpoints, r \in Endpoints \cup {NoEndpoint} :
        (/\ emitAndAwaitResponse(e, "d", r)
         /\ \E i \in CallIds : /\ OutstandingEmit(i)
                               /\ CallEndpoints(i) \cap {e, DefaultResponse(e, r)} # {})
        => /\ result' = "Listener already installed."
           /\ UNCHANGED <<listeners, calls, pendingResponses, emitted>>

C1_FirstResolves ==
    \A x \in Endpoints, d \in Payloads :
        deliver(x, d) =>
            \A i \in CallIds : (OutstandingEmit(i) /\ calls[i].r = x) =>
                /\ calls'[i].state = "resolved"
                /\ calls'[i].value = d

\* C1: while a correlated call on (e, r) is outstanding, every further
\* emitAndAwaitResponse that uses e or r fails with 'Listener already
\* installed.' and changes nothing, so at most one correlated call per endpoint
\* is outstanding; the first call keeps its listener and resolves with the
\* payload of the next message on r.
C1_CorrelationExclusivity ==
    /\ []C1_AtMostOne
    /\ [][C1_SecondFails]_vars
    /\ [][C1_FirstResolves]_vars

\* A second correlated call was refused while the first is still outstanding.
C1_Witness ==
    /\ result = "Listener already installed."
    /\ \E i \in CallIds : OutstandingEmit(i) /\ i \in listeners[calls[i].r]

\* C2: an endpoint is in the pending-call registry only while a call that
\* uses it is outstanding (the entry is destroyed when the response arrives).
C2_EntryDestroyedOnResponse ==
    \A x \in pendingResponses : \E i \in CallIds : Outstanding(i) /\ x \in CallEndpoints(i)

C3_NeverEmits ==
    \A e \in Endpoints : waitForMessage(e) => emitted' = emitted

C3_FailsWhenPending ==
    \A e \in Endpoints :
        (/\ waitForMessage(e)
         /\ \E i \in CallIds : IsCall(i) /\ e \in CallEndpoints(i))
        => /\ result' = "Listener already installed."
           /\ UNCHANGED <<listeners, calls, pendingResponses, emitted>>

C3_Resolves ==
    \A x \in Endpoints, d \in Payloads :
        deliver(x, d) =>
            \A i \in CallIds : (Outstanding(i) /\ calls[i].kind = "wait" /\ calls[i].e = x) =>
                /\ calls'[i].state = "resolved"
                /\ calls'[i].value = d

\* C3: waitForMessage(e) emits nothing, resolves with the payload of the next
\* message on e, and fails with 'Listener already installed.' whenever an
\* earlier waitForMessage or correlated call used e.
C3_PassiveWait ==
    /\ [][C3_NeverEmits]_vars
    /\ [][C3_FailsWhenPending]_vars
    /\ [][C3_Resolves]_vars

\* A passive wait has resolved with a payload, and a later call was refused.
C3_Witness ==
    /\ result = "Listener already installed."
    /\ \E i \in CallIds : calls[i].kind = "wait" /\ calls[i].state = "resolved"
                          /\ calls[i].value \in Payloads

\* A listener is superseded once a later correlated call used its endpoint.
Superseded(x, l) ==
    \E c \in CallIds : c > l /\ calls[c].kind = "emit" /\ x \in CallEndpoints(c)

C4_OnlyNewListener ==
    (Len(calls') = Len(calls) + 1 /\ calls'[Len(calls')].kind = "emit") =>
        LET c == calls'[Len(calls')]
        IN /\ listeners'[c.r] = {Len(calls')}
           /\ c.e # c.r => listeners'[c.e] = {}

C4_NoStaleListener ==
    \A x \in Endpoints : \A l \in listeners[x] : ~Superseded(x, l)

\* C4: an accepted emitAndAwaitResponse(e, _, r) removes every listener
\* installed earlier on e and on r, so afterwards the only listener on r is the
\* new one and no earlier listener on e or r is left to be invoked.
C4_StaleListenersRemoved ==
    /\ [][C4_OnlyNewListener]_vars
    /\ []C4_NoStaleListener

\* A correlated call was accepted on an endpoint that had a subscription.
C4_Witness ==
    \E c \in CallIds, l \in CallIds :
        /\ l < c
        /\ calls[l].kind = "sub"
        /\ calls[c].kind = "emit"
        /\ calls[l].e = calls[c].r
        /\ listeners[calls[c].r] = {c}

C5_OnlyByResponse ==
    \A i \in CallIds :
        OutstandingEmit(i) =>
            \/ calls'[i] = calls[i]
            \/ \E d \in Payloads : /\ deliver(calls[i].r, d)
                                   /\ calls'[i] = [calls[i] EXCEPT !.state = "resolved",
                                                                   !.value = d]

\* C5: an outstanding correlated call changes state only by a message on its
\* response endpoint; a socket error, a lost connection or disconnect() leave
\* it pending.
C5_PendingUntilResponse == [][C5_OnlyByResponse]_vars

\* A correlated call is still pending after the session was torn down.
C5_Witness ==
    /\ cleared
    /\ socket = "closed"
    /\ \E i \in CallIds : OutstandingEmit(i)

\* C6: at most one socket is ever opened; every createSocketConnection call
\* after the one that opened it is resolved at once, and no further handler is
\* installed.
C6_ConnectIdempotent ==
    /\ socketsOpened <= 1
    /\ connectHandlers <= 1
    /\ errorHandlers <= 1
    /\ disconnectHandlers <= 1
    /\ \A i \in 2..Len(connCalls) : connCalls[i].state = "resolved"

\* A second createSocketConnection was made while the socket was connecting.
C6_Witness ==
    /\ Len(connCalls) >= 2
    /\ socket = "connecting"
    /\ connCalls[2].state = "resolved"

\* The connection was opened by a call that marked it required.
RequiredConnection ==
    connectionResolver > 0 /\ connCalls[connectionResolver].required

C7_OnDisconnect ==
    (socket = "open" /\ socket' = "closed") =>
        IF RequiredConnection
        THEN /\ errorEvents' = errorEvents + 1
             /\ reloads' = IF cleared' THEN reloads ELSE reloads + 1
        ELSE reloads' = reloads

C7_TeardownNeverReloads ==
    (disconnect \/ clear) => (cleared' /\ reloads' = reloads)

\* C7: when the socket of a required connection disconnects, an error event
\* is fired and a reload is triggered exactly if cleared is false; disconnect()
\* and Network.clear() set cleared first and never reload; a connection that is
\* not required never reloads.
C7_RequiredDisconnect ==
    /\ [][C7_OnDisconnect]_vars
    /\ [][C7_TeardownNeverReloads]_vars

\* A required, connected session was torn down deliberately.
C7_Witness ==
    /\ RequiredConnection
    /\ socket = "closed"
    /\ cleared
    /\ errorEvents >= 1
    /\ reloads = 0
    /\ errorHandlers = 1


\* ----------------------------------------------------------------- HTTP claims

RequestIds == 1..Len(requests)

\* The success statuses as the claim gives them: 200, and 304 for a GET.
StatedSuccess(method, status) == status = 200 \/ (method = "GET" /\ status = 304)

\* The error message as the claim gives it: the body's message field (absent:
\* the empty message), or the raw body text if the body is not parseable.
StatedMessage(text) ==
    IF Parseable(text)
    THEN IF "message" \in DOMAIN JSONparse(text) THEN JSONparse(text).message ELSE ""
    ELSE text

\* C8: a loaded call with a parseable body resolves with the parsed body
\* exactly on 200 (and on 304 for a GET); on every other status it rejects with
\* the body's message field, or with the raw body text if it is not parseable.
C8_StatusClassification ==
    \A i \in RequestIds :
        LET req == requests[i]
        IN req.transport = "load" =>
              IF StatedSuccess(req.method, req.status)
              THEN Parseable(req.responseText) =>
                      /\ req.promise = "resolved"
                      /\ req.value = JSONparse(req.responseText)
              ELSE /\ req.promise = "rejected"
                   /\ req.message = StatedMessage(req.responseText)

\* C9: every call whose transport completed (load or error) has settled: its
\* promise is resolved or rejected.
C9_AlwaysSettles ==
    \A i \in RequestIds :
        requests[i].transport \in {"load", "error"} =>
            requests[i].promise \in {"resolved", "rejected"}

\* ----------------------------------------------------------------- Entity claims

\* C10: a setAction whose value equals the stored value (an absent entry
\* counting as 0) changes nothing and propagates nothing, so a repeated
\* setAction(a, v) propagates once, for zero and non-zero v alike.
C10_SetActionIdempotent ==
    [][\A ent \in Entities, a \in ActionIds, v \in Values :
          (setAction(ent, a, v) /\ getForce(ent, a) = v) =>
              /\ actions'[ent] = actions[ent]
              /\ sendInputs'[ent] = sendInputs[ent]]_vars

\* What the game is handed by a propagation of a cleared entity.
Cleared == [actions |-> <<>>, mouseMovement |-> Origin]

\* C11: an entity's action map holds a key only while that action's pressure
\* is non-zero: no key is ever stored with the value 0, and a setAction with
\* the value 0 leaves the action's key absent.
C11_NoZeroEntry ==
    /\ [](\A ent \in Entities : \A a \in DOMAIN actions[ent] : actions[ent][a] # 0)
    /\ [][\A ent \in Entities, a \in ActionIds :
             setAction(ent, a, 0) => a \notin DOMAIN actions'[ent]]_vars

\* C11 witness: an entity that was given two actions and then had the first
\* set back to 0 holds the second one only.
C11_Witness ==
    \E ent \in Entities :
        /\ sendInputs[ent] = 3
        /\ DOMAIN actions[ent] = {8}
        /\ lastSent[ent].actions = actions[ent]
        /\ mouseMovement[ent] = Origin

\* C13: reading an action returns the value of the most recent setAction for
\* it since the last clearInput, and 0 if there was none or it was 0: every
\* setAction(a, v) makes a read v, a clearInput makes every action read 0,
\* nothing else changes what an action reads, and every action reads 0 at the
\* start.
C13_ReadsMostRecent ==
    /\ \A ent \in Entities, a \in ActionIds : getForce(ent, a) = 0
    /\ [][\A ent \in Entities, a \in ActionIds :
             /\ \A v \in Values : setAction(ent, a, v) => getForce(ent, a)' = v
             /\ clearInput(ent) => getForce(ent, a)' = 0
             /\ getForce(ent, a)' # getForce(ent, a) =>
                   clearInput(ent) \/ \E v \in Values : setAction(ent, a, v)]_vars

\* C13 witness: an action set to 1 and then to 0.6 reads 0.6.
C13_Witness ==
    \E ent \in Entities :
        /\ sendInputs[ent] = 2
        /\ getForce(ent, 5) = 6
        /\ DOMAIN actions[ent] = {5}
        /\ mouseMovement[ent] = Origin

Registered(ent) ==
    \E i \in 1..Len(registeredEntities) : registeredEntities[i] = ent

\* The binding ids of an action list.
Bound(actionList) == {actionList[j] : j \in 1..Len(actionList)}

\* C12: every value stored in an entity's action map is a pressure within
\* [0, 1] (0 to 10 tenths), in every state that controller polling reaches.
C12_PressureInRange ==
    \A ent \in Entities : \A a \in DOMAIN actions[ent] :
        0 <= actions[ent][a] /\ actions[ent][a] <= 10

\* C16: while input is enabled, setActions(key, value, device) makes every
\* action bound to key read value on every registered entity and tags that
\* entity with the device; the other actions of a registered entity, and the
\* entities that are not registered, stay as they are.
C16_SetActionsReachesAll ==
    [][\A key \in KeyCodes \cup MouseButtons, value \in {0, Pressed} :
          (controlsEnabled /\ setActions(key, value, "keyboard")) =>
              \A ent \in Entities :
                  IF Registered(ent)
                  THEN /\ \A a \in BindingIds :
                             getForce(ent, a)' = IF a \in Bound(getActionList(key))
                                                 THEN value ELSE getForce(ent, a)
                       /\ getActionList(key) # <<>> => inputDevice'[ent] = "keyboard"
                  ELSE /\ actions'[ent] = actions[ent]
                       /\ inputDevice'[ent] = inputDevice[ent]]_vars

\* C17: while controlsEnabled is false, setActions and onMouseMove change no
\* entity's action map, device tag or mouse movement, propagate nothing and
\* raise no error.
C17_DisabledNoOp ==
    [][(~controlsEnabled /\ lastCall' \in {"setActions", "onMouseMove"}) =>
          /\ UNCHANGED entityVars
          /\ ~threw'
          /\ consoleErrors' = 0]_vars

\* C17 witness: a setActions or onMouseMove has run with an entity registered
\* and the controls disabled.
C17_Witness ==
    /\ ~controlsEnabled
    /\ lastCall \in {"setActions", "onMouseMove"}
    /\ \E ent \in Entities : Registered(ent)

\* C18: after any call to disable() the controls are disabled and stay so
\* until enable() is called, so the setActions or onMouseMove that follows a
\* disable() leaves every entity as it is.
C18_DisableDisables ==
    [][/\ lastCall' = "disable" => ~controlsEnabled'
       /\ (~controlsEnabled /\ lastCall' # "enable") => ~controlsEnabled'
       /\ (lastCall = "disable" /\ lastCall' \in {"setActions", "onMouseMove"}) =>
              UNCHANGED entityVars]_vars

\* C19: registerEntity of a null entity, or of an object without an action
\* container, reports the error, does not throw, and leaves the registered
\* entities as they are.
C19_InvalidRegistrationSkipped ==
    [][\A entity \in {BareObject, Null} :
          registerEntity(entity) =>
              /\ consoleErrors' = 1
              /\ ~threw'
              /\ registeredEntities' = registeredEntities]_vars

\* C20: unregisterEntity(e) takes e out of the registered entities and leaves
\* every action of e reading 0; while e is not registered, no setActions and
\* no onMouseMove changes anything of e.
C20_UnregisterRemovesAndClears ==
    [][\A ent \in Entities :
          /\ unregisterEntity(ent) =>
                /\ ~Registered(ent)'
                /\ \A a \in BindingIds : getForce(ent, a)' = 0
          /\ (~Registered(ent) /\ lastCall' \in {"setActions", "onMouseMove"}) =>
                Fields(ent)' = Fields(ent)]_vars

\* C20 witness: of two entities that held FORWARD one has been unregistered
\* and cleared, and the other still holds it.
C20_Witness ==
    /\ lastCall = "unregisterEntity"
    /\ ~threw
    /\ controlsEnabled
    /\ \E ent \in Entities :
          /\ ~Registered(ent)
          /\ sendInputs[ent] = 2
          /\ lastSent[ent] = Cleared
          /\ actions[ent] = <<>>
          /\ \E other \in Entities :
                Registered(other) /\ getForce(other, 5) = Pressed /\ sendInputs[other] = 1

\* C21: a reset of Controls clears the action state of every entity that was
\* registered: after reset() no entity that was registered holds a non-zero
\* action value.
C21_ResetClearsEntities ==
    [][lastCall' = "reset" =>
          \A ent \in Entities :
              Registered(ent) => \A a \in BindingIds : getForce(ent, a)' = 0]_vars

\* C25: while the forced pointer-lock state is false requestPointerLock
\* requests no lock, while it is true exitPointerLock releases no lock, while
\* it is undefined both go through to the browser, and
\* forcePointerLockState(true) requests the lock and
\* forcePointerLockState(false) exits it.
C25_PointerLockTriState ==
    [][/\ (lastCall' = "requestPointerLock" /\ pointerLockState = "false") =>
              pointerCalls' = <<>> /\ pointerLocked' = pointerLocked
       /\ (lastCall' = "exitPointerLock" /\ pointerLockState = "true") =>
              pointerCalls' = <<>> /\ pointerLocked' = pointerLocked
       /\ (lastCall' = "requestPointerLock" /\ pointerLockState = "undefined") =>
              pointerCalls' = <<"requestPointerLock">>
       /\ (lastCall' = "exitPointerLock" /\ pointerLockState = "undefined") =>
              pointerCalls' = <<"exitPointerLock">>
       /\ (lastCall' = "forcePointerLockState" /\ pointerLockState' = "true") =>
              pointerCalls' = <<"requestPointerLock">>
       /\ (lastCall' = "forcePointerLockState" /\ pointerLockState' = "false") =>
              pointerCalls' = <<"exitPointerLock">>]_vars

\* C25, amended: a lock request reaches the browser exactly when the forced
\* state is not false and window.engine has a renderer; an exit reaches the
\* browser, and releases the lock, exactly when the forced state is not true;
\* forcePointerLockState(state) stores state and then requests the lock for
\* true (given a renderer), exits it for false, and does neither for undefined.
C25_PointerLockTriStateWithRenderer ==
    [][\A hasRenderer, granted \in BOOLEAN :
          /\ requestPointerLock(hasRenderer, granted) =>
                pointerCalls' = IF pointerLockState # "false" /\ hasRenderer
                                THEN <<"requestPointerLock">> ELSE <<>>
          /\ exitPointerLock =>
                IF pointerLockState = "true"
                THEN pointerCalls' = <<>> /\ pointerLocked' = pointerLocked
                ELSE pointerCalls' = <<"exitPointerLock">> /\ ~pointerLocked'
          /\ \A state \in PointerLockStates :
                forcePointerLockState(state, hasRenderer, granted) =>
                    /\ pointerLockState' = state
                    /\ pointerCalls' =
                          CASE state = "true" ->
                                  IF hasRenderer THEN <<"requestPointerLock">> ELSE <<>>
                            [] state = "false" -> <<"exitPointerLock">>
                            [] OTHER -> <<>>]_vars

\* C25 witness: a lock was granted, the state was then forced to true, and an
\* exit was refused.
C25_Witness ==
    /\ lastCall = "exitPointerLock"
    /\ pointerLockState = "true"
    /\ pointerLocked
    /\ pointerCalls = <<>>

\* ----------------------------------------------------------------- polling claims

\* A polling tick that samples the gamepad: the scheduled callback while a
\* controller is present, or the first tick made by startPollingController.
PollingTick(axes, button) ==
    \/ hasController /\ controllerTick(axes, button)
    \/ ~hasController /\ startPollingController(axes, button)

\* The keys of the axes.
AxisKeys == {"axes0", "axes1"}

\* The magnitude of a reading.
Magnitude(val) == IF val < 0 THEN -val ELSE val

\* Every axis magnitude is at most the deadzone (readings in tenths, the
\* deadzone in hundredths).
AllInDeadzone(axes) ==
    \A i \in 1..Len(axes) : Magnitude(axes[i]) * 10 <= MovementDeadzone

\* The frame value of a key in a tick, as the specification states it: an axis
\* reads its reversed value once some axis is out of the deadzone and 0
\* otherwise, a button reads its value when out of the deadzone and 0 otherwise.
StatedFrame(key, axes, button) ==
    CASE key = "axes0" -> IF AllInDeadzone(axes) THEN 0 ELSE -axes[1]
      [] key = "axes1" -> IF AllInDeadzone(axes) THEN 0 ELSE -axes[2]
      [] OTHER -> IF Magnitude(button) * 10 <= MovementDeadzone THEN 0 ELSE button

\* C22: a polling tick in which every axis magnitude is at most the deadzone
\* emits no axis entry, whatever was emitted before.
C22_DeadzoneNoAxisEntries ==
    [][\A axes \in GamepadAxes, button \in ButtonValues :
          (PollingTick(axes, button) /\ AllInDeadzone(axes)) =>
              DOMAIN previousInput' \cap AxisKeys = {}]_vars

\* C22, amended: a polling tick in which every axis magnitude is at most the
\* deadzone emits no non-zero axis entry; it emits an axis entry, of value 0,
\* exactly for the axes whose entry in the preceding tick was non-zero.
C22_DeadzoneOnlyReleases ==
    [][\A axes \in GamepadAxes, button \in ButtonValues :
          (PollingTick(axes, button) /\ AllInDeadzone(axes)) =>
              \A key \in AxisKeys :
                  /\ key \in DOMAIN previousInput' => previousInput'[key] = 0
                  /\ key \in DOMAIN previousInput' <=>
                        (key \in DOMAIN previousInput /\ previousInput[key] # 0)]_vars

\* C22 witness: a tick inside the deadzone released axes0, which the tick
\* before had emitted with a non-zero value.
C22_Witness ==
    /\ lastCall = "controllerTick"
    /\ DOMAIN previousInput = {"axes0"}
    /\ previousInput["axes0"] = 0

\* C23: a tick emits a 0 for a key exactly when the key's frame value is 0 in
\* this tick and was non-zero in the tick before; a non-zero frame value is
\* always emitted as it is (so the previous entry is non-zero exactly when the
\* previous frame value was).
C23_EdgeSuppression ==
    [][\A axes \in GamepadAxes, button \in ButtonValues :
          PollingTick(axes, button) =>
              \A key \in {"axes0", "axes1", "button5"} :
                  LET frame == StatedFrame(key, axes, button)
                  IN /\ (key \in DOMAIN previousInput' /\ previousInput'[key] = 0) <=>
                            (frame = 0 /\ key \in DOMAIN previousInput
                                       /\ previousInput[key] # 0)
                     /\ frame # 0 =>
                            (key \in DOMAIN previousInput' /\ previousInput'[key] = frame)]_vars

\* C23 witness: button 5 was pressed in one tick and released in the next.
C23_Witness ==
    /\ lastCall = "controllerTick"
    /\ DOMAIN previousInput = {"button5"}
    /\ previousInput["button5"] = 0

\* C24: with input enabled, a keydown of a bound key makes every registered
\* entity read 1 for each action bound to the key, and the keyup that follows
\* hands every registered entity setAction(w, 0): the entry for w is absent
\* afterwards and the game has been told once more, with w absent. Each event
\* is one step, so the calls of one event are over before the next begins.
C24_KeydownThenKeyup ==
    [][\A keyCode \in KeyCodes :
          \A ent \in Entities, w \in Bound(getActionList(keyCode)) :
              (controlsEnabled /\ Registered(ent)) =>
                  /\ keydown(keyCode) => getForce(ent, w)' = Pressed
                  /\ keyup(keyCode) =>
                        /\ w \notin DOMAIN actions'[ent]
                        /\ sendInputs'[ent] = sendInputs[ent] + 1
                        /\ w \notin DOMAIN lastSent'[ent].actions]_vars



\* ----------------------------------------------------------------- bindings

\* The members of a sequence.
Ids(seq) == {seq[i] : i \in 1..Len(seq)}

\* The ids the index maps key to.
At(index, key) == IF key \in DOMAIN index THEN Ids(index[key]) ELSE {}

\* The raw keys of the bindings of table.
KeysOf(table) == UNION {Ids(table[i].keys) : i \in 1..Len(table)}

\* The wire ids table declares for the bindings that have key.
Declared(table, key) ==
    {table[i].binding_id : i \in {j \in 1..Len(table) : key \in Ids(table[j].keys)}}

\* C26: for tables T1 and T2 that share no wire id, the action index built
\* from merge(T1, T2) is built without an exception, maps every raw key to the
\* union of what the indexes of T1 and of T2 map it to, and resolves a key to
\* the wire ids the merged table declares for the bindings that have the key.
C26_MergedIndexIsUnion ==
    indexes.called =>
        LET M == merge(indexes.T1, indexes.T2)
        IN /\ ~indexes.first.threw /\ ~indexes.second.threw /\ ~indexes.merged.threw
           /\ \A key \in KeysOf(M) :
                 /\ At(indexes.merged.boundActions, key) =
                        At(indexes.first.boundActions, key)
                            \cup At(indexes.second.boundActions, key)
                 /\ At(indexes.merged.boundActions, key) = Declared(M, key)

\* The key the static table declares for the binding called name on device.
DefaultKey(name, device) == Bindings[IndexOfName(Bindings, name)].keys[device]

\* The id the static table declares for the binding called name.
DefaultId(name) == Bindings[IndexOfName(Bindings, name)].binding_id

\* C27: the static Bindings table always is what it was at the start, and
\* after a registerBindings that ends without an exception (called directly or
\* by loadSettings) every override's key resolves to the id of its binding,
\* and the default key of that device, when it is another key, no longer does.
C27_RegisterBindingsCopies ==
    /\ [](staticBindings = Bindings)
    /\ [][((registerBindings \/ loadSettings) /\ ~threw') =>
             \A i \in 1..Len(customControls') :
                LET name == customControls'[i][1]
                    device == customControls'[i][2]
                    key == customControls'[i][3]
                IN /\ DefaultId(name) \in At(boundActions', key)
                   /\ key # DefaultKey(name, device) =>
                         DefaultId(name) \notin
                             At(boundActions', DefaultKey(name, device))]_vars

\* registerBindings has run with the up arrow as FORWARD's keyboard key: the
\* up arrow resolves to FORWARD, the W key to nothing, and the static table
\* still has W.
C27_Witness ==
    /\ lastCall \in {"registerBindings", "loadSettings"}
    /\ ~threw
    /\ customControls = << <<"FORWARD", 1, "38">> >>
    /\ getActionList("38") = <<5>>
    /\ getActionList("87") = <<>>
    /\ bindings[2].keys[1] = "38"
    /\ staticBindings[2].keys[1] = "87"

\* Every override of controls names a binding of the default table.
KnownControls(controls) ==
    \A i \in 1..Len(controls) : IndexOfName(Bindings, controls[i][1]) # 0

\* C28: when Settings.apply() fires the settings event, Controls' deadzone
\* becomes the settings' movement_deadzone and every custom key override of
\* the settings resolves to its binding's id.
C28_SettingsEventReloads ==
    [][apply =>
          /\ movementDeadzone' = settingsObject'.movement_deadzone
          /\ KnownControls(settingsObject'.controls) =>
                \A i \in 1..Len(settingsObject'.controls) :
                    DefaultId(settingsObject'.controls[i][1]) \in
                        At(boundActions', settingsObject'.controls[i][3])]_vars


\* ----------------------------------------------------------------- physics

\* The number v at 4-decimal precision, as a number.
Rounded(v) ==
    LET m == IF v.value < 0 THEN -v.value ELSE v.value
        q == ((m + Scale \div 2) \div Scale) * Scale
    IN Num(IF v.value < 0 THEN -q ELSE q)

\* The vector vec at 4-decimal precision, as a vector of numbers.
RoundedVec(vec) == Arr(<<Rounded(vec.items[1]), Rounded(vec.items[2])>>)

\* The fields of the body are numbers and vectors of numbers.
Numeric(body) ==
    /\ body.angularVelocity.type = "number"
    /\ body.angle.type = "number"
    /\ \A i \in 1..2 : /\ body.position.items[i].type = "number"
                       /\ body.interpolatedPosition.items[i].type = "number"
                       /\ body.velocity.items[i].type = "number"

\* C29: when an entity with a body consumes the snapshot just serialized from
\* another entity's body of finite numbers, its body's angular velocity,
\* angle, position and velocity are numbers and vectors of numbers, equal to
\* the first body's values at 4-decimal precision (the position being the
\* interpolated position the snapshot carries).
C29_PhysicsRoundTrip ==
    [][\A first \in Entities : \A second \in Entities \ {first} :
          ( /\ physicsBody[first].present /\ Numeric(physicsBody[first])
            /\ physicsBody[second].present
            /\ snapshot[first] = SerializePhysicsBody(physicsBody[first])
            /\ consumeUpdate(second, snapshot[first]) ) =>
              /\ ~threw'
              /\ physicsBody'[second].angularVelocity = Rounded(physicsBody[first].angularVelocity)
              /\ physicsBody'[second].angle = Rounded(physicsBody[first].angle)
              /\ physicsBody'[second].position = RoundedVec(physicsBody[first].interpolatedPosition)
              /\ physicsBody'[second].velocity = RoundedVec(physicsBody[first].velocity)]_vars

\* C30: serializePhysics returns null for an entity without a physics body and
\* otherwise the 4-component tuple of angular velocity, position, velocity and
\* angle, in this order; consumeUpdate of a null or absent snapshot ends
\* without an exception and changes no field of an entity or of a body.
C30_SnapshotShape ==
    [][\A ent \in Entities :
          /\ serializePhysics(ent) =>
                /\ ~threw'
                /\ IF ~physicsBody[ent].present THEN snapshot'[ent] = JsNull
                   ELSE /\ snapshot'[ent].type = "array"
                        /\ Len(snapshot'[ent].items) = 4
                        /\ snapshot'[ent].items[1].items = <<toFixed(physicsBody[ent].angularVelocity)>>
                        /\ snapshot'[ent].items[2] = MapToFixed(physicsBody[ent].interpolatedPosition)
                        /\ snapshot'[ent].items[3] = MapToFixed(physicsBody[ent].velocity)
                        /\ snapshot'[ent].items[4].items = <<toFixed(physicsBody[ent].angle)>>
          /\ \A physics \in {JsNull, JsUndefined} :
                consumeUpdate(ent, physics) =>
                    /\ ~threw'
                    /\ UNCHANGED <<entityVars, physicsVars, eventsVars, engineVars>>]_vars


\* ----------------------------------------------------------------- event bus

\* The uuids of the listeners registered for label, in the map's order.
ListenersOf(label) ==
    IF label \in DOMAIN registeredListeners
    THEN [i \in 1..Len(registeredListeners[label]) |-> registeredListeners[label][i]]
    ELSE <<>>

\* The listener called uuid is registered now, for some label.
RegisteredNow(uuid) ==
    \E label \in DOMAIN registeredListeners :
        \E i \in 1..Len(registeredListeners[label]) : registeredListeners[label][i].uuid = uuid

\* The listener's own context is set and differs from the event's.
Skipped(listener, context) ==
    listener.context # NoContext /\ listener.context # context

C33_RemoveListener ==
    [][/\ \A uuid \in 1..MaxListeners :
             removeListener(uuid) =>
                 /\ (returned'.value = "true") <=> RegisteredNow(uuid)
                 /\ ~RegisteredNow(uuid)'
                 /\ DOMAIN registeredListeners' = DOMAIN registeredListeners
                 /\ \A label \in DOMAIN registeredListeners :
                       registeredListeners'[label] =
                           SelectSeq(registeredListeners[label], LAMBDA l : l.uuid # uuid)
       /\ \A uuid \in 1..uuidsCreated : ~RegisteredNow(uuid) => ~RegisteredNow(uuid)'
       /\ \A label \in Labels \cup {NoLabel}, context \in Contexts :
             fireEvent(label, context) =>
                 \A i \in 1..Len(delivered') : RegisteredNow(delivered'[i])]_vars

\* The second of three listeners of one label was removed: removeListener
\* returned true and the first and the third are left, in this order.
C33_Witness ==
    /\ returned.method = "removeListener"
    /\ returned.value = "true"
    /\ returned.uuid = 2
    /\ \E label \in Labels :
          /\ Len(ListenersOf(label)) = 2
          /\ ListenersOf(label)[1].uuid = 1
          /\ ListenersOf(label)[2].uuid = 3


\* ----------------------------------------------------------------- global deadzone

\* The frame value of axis i (1 or 2) as stated: the negation of the raw value
\* once any axis is out of the deadzone, 0 otherwise.
StatedAxisFrame(axes, i) == IF AllInDeadzone(axes) THEN 0 ELSE -axes[i]

\* The key of axis i.
AxisKey(i) == IF i = 1 THEN "axes0" ELSE "axes1"

C34_SinglePollingLoop == scheduledTicks <= 1

\* C35: once the gamepad is disconnected and no controllerTick is scheduled
\* any more, which is when nothing further runs without new input, no
\* registered entity holds an action at a non-zero value (controller keys
\* being the only input there is).
C35_ReleasedAfterDisconnect ==
    (~hasController /\ scheduledTicks = 0) =>
        \A ent \in Entities :
            Registered(ent) => \A action \in DOMAIN actions[ent] : actions[ent][action] = 0


\* ----------------------------------------------------------------- correlated calls, connection

\* The errors a correlated call is rejected with.
Rejections == {"No socket installed.", "Listener already installed."}

\* C36: an emitAndAwaitResponse or waitForMessage that is rejected with
\* 'No socket installed.' or 'Listener already installed.' leaves the pending
\* registry, the socket's listeners and the emitted messages as they were.
C36_RejectedCallNoEffect ==
    [][(/\ \/ \E e \in Endpoints, r \in Endpoints \cup {NoEndpoint} :
                 emitAndAwaitResponse(e, "d", r)
           \/ \E e \in Endpoints : waitForMessage(e)
        /\ result' \in Rejections) =>
           UNCHANGED <<pendingResponses, listeners, emitted>>]_vars

\* A call was rejected because a listener is installed already, with calls
\* pending and a message emitted.
C36_Witness ==
    /\ result = "Listener already installed."
    /\ pendingResponses # {}
    /\ Len(emitted) > 0
    /\ \E i \in 1..Len(calls) : calls[i].state = "pending" /\ i \in listeners[calls[i].r]

\* C37: the listener of an accepted emitAndAwaitResponse is on its response
\* endpoint from the emit on for as long as the call is pending, and a message
\* that arrives on the response endpoint resolves the call with its data.
C37_ResponseNeverMissed ==
    /\ [](\A i \in 1..Len(calls) :
             (calls[i].kind = "emit" /\ calls[i].state = "pending") =>
                 /\ i \in listeners[calls[i].r]
                 /\ \E j \in 1..Len(emitted) : emitted[j][1] = calls[i].e)
    /\ [][\A e \in Endpoints, d \in Payloads :
             deliver(e, d) =>
                 \A i \in 1..Len(calls) :
                     (calls[i].kind = "emit" /\ calls[i].state = "pending" /\ calls[i].r = e)
                         => (calls'[i].state = "resolved" /\ calls'[i].value = d)]_vars

\* A call emitted on ping and answered on pong is resolved by the message
\* that arrived on pong.
C37_Witness ==
    \E i \in 1..Len(calls) :
        /\ calls[i].kind = "emit" /\ calls[i].e = "ping" /\ calls[i].r = "pong"
        /\ calls[i].state = "resolved" /\ calls[i].value = "p2"

\* C38: when some createSocketConnection call of the session passed
\* required = true, a loss of the connection while cleared is false fires an
\* error event and reloads the page.
C38_RequiredHonoured ==
    [][(/\ socketLost
        /\ ~cleared
        /\ \E i \in 1..Len(connCalls) : connCalls[i].required) =>
           (errorEvents' > errorEvents /\ reloads' = reloads + 1)]_vars

\* ----------------------------------------------------------------- Engine claims

\* C39: at most one render callback is scheduled at any time, and rendering
\* is true exactly when a render callback is scheduled.
C39_SingleRenderLoop ==
    /\ scheduledRenders <= 1
    /\ rendering <=> scheduledRenders > 0

====
